---- MODULE Spec2Model ----
(***************************************************************************)
(* The in-process resource-coordination layer of pdf-docat:                *)
(*   - SimpleRateLimiter   (app/services/rate_limiter.py)                  *)
(*   - TaskManager         (app/services/background_processor.py)          *)
(*   - ReplitCacheManager  (app/services/replit_cache.py)                  *)
(*   - ApiKeyPool          (app/services/api_key_service.py)               *)
(* Each component has its own specification (SpecLimiter, SpecTasks,       *)
(* SpecCache and SpecExpiry, SpecPool); the variables of the other         *)
(* components stay at their initial values.  Time is the value the clock   *)
(* returns, in seconds; it advances by the Tick action of each             *)
(* specification.                                                          *)
(*                                                                         *)
(* Python dicts keep insertion order and the code sorts their items with a *)
(* stable sort, so a dict is modelled as a sequence of [k, v] records.     *)
(***************************************************************************)
EXTENDS Integers, Sequences, FiniteSets, TLC

VARIABLES
    now,                \* the clock: time.time() / datetime.utcnow()
    ticks,              \* how many times the clock has advanced
    calls,              \* how many operations have been called
    \* ---- SimpleRateLimiter
    limit, window,      \* the limit and window the callers pass to check_rate_limit
    requests,           \* self.requests: user_id -> deque of timestamps
    limiter_last_cleanup, \* self._last_cleanup
    check_result,       \* what the last check_rate_limit returned (and its arguments)
    admitted,           \* history: user_id -> every check that was allowed: its
                        \*   instant and the count it saw
    checked,            \* history: user_id -> what each of its checks returned
    \* ---- TaskManager
    tasks,              \* self.tasks: task_id -> task info
    results,            \* self.results: task_id -> result ("absent": no entry)
    tasks_last_cleanup, \* self._last_cleanup
    next_task_id,       \* the next fresh uuid
    exec,               \* task_id -> position of its scheduled _execute_task
    job_outcome,        \* task_id -> what the job did (history)
    cancel_result,      \* what the last cancel_task returned, and the status it saw
    cancelled_ok,       \* the task ids for which cancel_task returned True
    status_result,      \* what the last get_task_status returned, and for which id
    \* ---- ReplitCacheManager
    memory_cache,       \* self.memory_cache: key -> cache item
    db,                 \* the Replit DB entries "cache:<key>" (serialized items)
    db_available,       \* REPLIT_DB_AVAILABLE and db is not None
    cache_last_cleanup, \* self._last_cleanup
    last_write,         \* history: key -> the last set of the key since its last delete
    get_result,         \* what the last get returned (and where from)
    key_calls,          \* history: the generate_cache_key calls made, with their keys
    \* ---- ApiKeyPool
    keys,               \* self.keys
    usage_counts,       \* self.usage_counts: key -> list of timestamps
    last_used_index,    \* self.last_used_index
    rate_limit_per_minute, \* self.rate_limit_per_minute
    key_result,         \* what the last get_key returned, and the state it saw
    key_log,            \* history: the keys get_key returned, in order, with the instant
    pool_fixed,         \* history: no add_key / remove_key since construction
    stats_result,       \* what the last get_usage_stats returned, and the pool it saw
    refreshing,         \* update_api_key_pool_from_db between its two assignments:
                        \*   the new key list (<<>>: no refresh under way)
    lock,               \* self.lock: the thread that holds it (0: free)
    pc,                 \* thread -> where it is in get_key
    local,              \* thread -> the local variables of its get_key
    expected_len        \* history: key -> timestamps appended to its usage list
                        \*   minus timestamps pruned from it, since it was added

clockVars   == <<now, ticks, calls>>
limiterVars == <<limit, window, requests, limiter_last_cleanup, check_result, admitted,
                 checked>>
taskVars    == <<tasks, results, tasks_last_cleanup, next_task_id, exec, job_outcome,
                 cancel_result, cancelled_ok, status_result>>
cacheVars   == <<memory_cache, db, db_available, cache_last_cleanup, last_write,
                 get_result, key_calls>>
threadVars  == <<lock, pc, local>>
refreshVars == <<stats_result, refreshing>>
poolVars    == <<keys, usage_counts, last_used_index, rate_limit_per_minute,
                 key_result, key_log, pool_fixed, threadVars, expected_len,
                 refreshVars>>
vars        == <<clockVars, limiterVars, taskVars, cacheVars, poolVars>>

(***************************************************************************)
(* Bounds of the model.                                                    *)
(***************************************************************************)
MaxLimiterTicks == 3
MaxCalls == 4

Max(a, b) == IF a >= b THEN a ELSE b

\* None: a dict field that is absent / Python's None
None == -1

(***************************************************************************)
(* An insertion-ordered dict: a sequence of [k |-> key, v |-> value].      *)
(***************************************************************************)
DictKeys(d) == {d[i].k : i \in 1..Len(d)}

DictHas(d, key) == key \in DictKeys(d)

DictGet(d, key) == (CHOOSE i \in 1..Len(d) : d[i].k = key)

DictVal(d, key) == d[DictGet(d, key)].v

\* d[key] = val: an existing key keeps its place, a new key goes last
DictPut(d, key, val) ==
    IF DictHas(d, key)
    THEN [i \in 1..Len(d) |-> IF d[i].k = key THEN [k |-> key, v |-> val] ELSE d[i]]
    ELSE Append(d, [k |-> key, v |-> val])

\* del d[key] for every key of the set
DictDelAll(d, ks) == SelectSeq(d, LAMBDA e : e.k \notin ks)

DictDel(d, key) == DictDelAll(d, {key})

(***************************************************************************)
(* SimpleRateLimiter (rate_limiter.py).                                    *)
(* check_rate_limit has no suspension point and its only caller is the     *)
(* coroutine process_pdf_async_endpoint, so a check runs to completion on  *)
(* the event loop before another starts: one action per call.  The limit   *)
(* and window are configuration: every call of a behaviour passes the same *)
(* pair, as the endpoint does (async_pdf_replit.py lines 126-130).         *)
(***************************************************************************)
Users   == {"u1", "u2", "u3"}
Limits  == {1, 2}
Windows == {3600, 7200}
\* how far the clock may advance between two calls of the limiter: a cleanup
\* interval, and an hour (the shorter window and the cleanup's cutoff)
LimiterSteps == {300, 3600}

limiter_cleanup_interval == 300
limiter_inactive_after   == 3600
\* self.max_users_tracked is 10000 in the source; scaled down here so that
\* the ceiling is reached with the identities of Users
max_users_tracked == 2
\* int(self.max_users_tracked * 0.8)
keep_count == (max_users_tracked * 8) \div 10

\* while user_requests and user_requests[0] < cutoff: user_requests.popleft()
PopLeftMutantKeep(q, cutoff) == q

RECURSIVE PopLeftWhileOlder(_, _)
PopLeftWhileOlder(q, cutoff) ==
    IF q # <<>> /\ Head(q) < cutoff
    THEN PopLeftWhileOlder(Tail(q), cutoff)
    ELSE q

\* key=lambda x: x[1][-1] if x[1] else 0
LastRequest(e) == IF e.v # <<>> THEN e.v[Len(e.v)] ELSE 0

RankByLastRequestMutantLeastRecent(d, i) ==
    Cardinality({j \in 1..Len(d) :
        \/ LastRequest(d[j]) < LastRequest(d[i])
        \/ LastRequest(d[j]) = LastRequest(d[i]) /\ j < i})

\* the place of item i of d in sorted(d.items(), key=LastRequest, reverse=True):
\* the sort is stable, so equal keys keep the dict's order
RankByLastRequest(d, i) ==
    Cardinality({j \in 1..Len(d) :
        \/ LastRequest(d[j]) > LastRequest(d[i])
        \/ LastRequest(d[j]) = LastRequest(d[i]) /\ j < i})

CleanupMutantForgetsAll(reqs, last, t) ==
    IF t - last < limiter_cleanup_interval
    THEN [requests |-> reqs, last_cleanup |-> last]
    ELSE [requests |-> <<>>, last_cleanup |-> t]

\* _cleanup_old_data at instant t: the new [requests, last_cleanup]
CleanupOldData(reqs, last, t) ==
    IF t - last < limiter_cleanup_interval
    THEN [requests |-> reqs, last_cleanup |-> last]
    ELSE LET cutoff_time == t - limiter_inactive_after
             popped == [i \in 1..Len(reqs) |->
                          [k |-> reqs[i].k, v |-> PopLeftWhileOlder(reqs[i].v, cutoff_time)]]
             active == SelectSeq(popped, LAMBDA e : e.v # <<>>)
             users_to_remove ==
                 IF Len(active) > max_users_tracked
                 THEN {active[i].k : i \in {j \in 1..Len(active) :
                                               RankByLastRequest(active, j) >= keep_count}}
                 ELSE {}
         IN  [requests |-> DictDelAll(active, users_to_remove), last_cleanup |-> t]

\* if allowed: user_requests.append(current_time)
AppendMutantAlways(q, allowed, t) == Append(q, t)

AppendMutantFront(q, allowed, t) == IF allowed THEN <<t>> \o q ELSE q

AppendIfAllowed(q, allowed, t) == IF allowed THEN Append(q, t) ELSE q

NoCheck == [user |-> "", limit |-> 0, window |-> 0, time |-> 0, allowed |-> FALSE,
            remaining |-> 0, reset_time |-> 0, current_count |-> 0, before |-> 0,
            error |-> FALSE]

check_rate_limit(user_id) ==
    /\ calls < MaxCalls
    /\ LET current_time == now
           window_start == current_time - window
           \* self.requests is a defaultdict(deque): reading a missing user creates it
           q0 == IF DictHas(requests, user_id) THEN DictVal(requests, user_id) ELSE <<>>
           q1 == PopLeftWhileOlder(q0, window_start)
           allowed == Len(q1) < limit
           q2 == AppendIfAllowed(q1, allowed, current_time)
           current_count == IF allowed THEN Len(q1) + 1 ELSE Len(q1)
           remaining == Max(0, limit - current_count)
           reset_time == window_start + window
           cleaned == CleanupOldData(DictPut(requests, user_id, q2),
                                     limiter_last_cleanup, current_time)
       IN  /\ requests' = cleaned.requests
           /\ limiter_last_cleanup' = cleaned.last_cleanup
           /\ check_result' = [user |-> user_id, limit |-> limit, window |-> window,
                               time |-> current_time, allowed |-> allowed,
                               remaining |-> remaining, reset_time |-> reset_time,
                               current_count |-> current_count, before |-> Len(q1),
                               error |-> FALSE]
           /\ admitted' = IF allowed
                          THEN [admitted EXCEPT ![user_id] =
                                  Append(@, [t |-> current_time, before |-> Len(q1)])]
                          ELSE admitted
           /\ checked' = [checked EXCEPT ![user_id] =
                            Append(@, [t |-> current_time, allowed |-> allowed,
                                       current_count |-> current_count,
                                       remaining |-> remaining,
                                       reset_time |-> reset_time])]
    /\ calls' = calls + 1
    /\ UNCHANGED <<limit, window, now, ticks, taskVars, cacheVars, poolVars>>

CheckRateLimit == \E u \in Users : check_rate_limit(u)

\* lines 115-124: what the except handler returns
FailOpenMutantDeny(user_id, lim, win, t) ==
    [user |-> user_id, limit |-> lim, window |-> win, time |-> t, allowed |-> FALSE,
     remaining |-> 0, reset_time |-> t + win, current_count |-> 0, before |-> 0,
     error |-> TRUE]

FailOpen(user_id, lim, win, t) ==
    [user |-> user_id, limit |-> lim, window |-> win, time |-> t, allowed |-> TRUE,
     remaining |-> lim, reset_time |-> t + win, current_count |-> 0, before |-> 0,
     error |-> TRUE]

\* the places of the try block where the bookkeeping can raise: the read of
\* the user's history (line 79), before anything is changed, and the
\* cleanup (line 99), after the history has been pruned and appended to
FailurePoints == {"history", "cleanup"}

\* check_rate_limit when its bookkeeping raises at `at`: admitted and checked
\* keep the checks that ended without an exception
check_rate_limit_fails(user_id, at) ==
    /\ calls < MaxCalls
    /\ calls' = calls + 1
    /\ LET q0 == IF DictHas(requests, user_id) THEN DictVal(requests, user_id) ELSE <<>>
           q1 == PopLeftWhileOlder(q0, now - window)
           q2 == AppendIfAllowed(q1, Len(q1) < limit, now)
       IN  requests' = IF at = "cleanup" THEN DictPut(requests, user_id, q2) ELSE requests
    /\ check_result' = FailOpen(user_id, limit, window, now)
    /\ UNCHANGED <<limit, window, limiter_last_cleanup, admitted, checked>>
    /\ UNCHANGED <<now, ticks, taskVars, cacheVars, poolVars>>

\* the identities whose checks are followed when the bookkeeping can fail
FailOpenUsers == {"u1", "u2"}

CheckFails == \E u \in FailOpenUsers, at \in FailurePoints : check_rate_limit_fails(u, at)

CheckFailOpenUser == \E u \in FailOpenUsers : check_rate_limit(u)

TickLimiter ==
    /\ ticks < MaxLimiterTicks
    /\ \E d \in LimiterSteps : now' = now + d
    /\ ticks' = ticks + 1
    /\ UNCHANGED <<calls, limiterVars, taskVars, cacheVars, poolVars>>

(***************************************************************************)
(* TaskManager (background_processor.py).                                  *)
(* create_task queues _execute_task on the request's BackgroundTasks, which*)
(* runs it after the response is sent.  _execute_task is a coroutine that  *)
(* awaits the job, so it is two steps: ExecStart (lines 87-92) and         *)
(* ExecFinish (lines 100-111), with other handlers running in between.     *)
(***************************************************************************)
MaxTasks == 3
MaxSubmits == 2
MaxTaskTicks == 1
TaskIds  == 1..MaxTasks
\* what a job returns ("None": the job returned None)
JobValues == {"r1"}
TaskSteps == {3600, 86500}

tasks_cleanup_interval == 3600
tasks_max_age          == 86400
\* self.max_tasks_in_memory is 1000 in the source; scaled down here
max_tasks_in_memory == 2

\* lines 68-74: the record create_task stores
NewTaskMutantProcessing(t) == [status |-> "PROCESSING", created_at |-> t, started_at |-> t,
                               completed_at |-> None, error |-> ""]

NewTask(t) == [status |-> "PENDING", created_at |-> t, started_at |-> None,
               completed_at |-> None, error |-> ""]

RankByCompletedAtMutantNewestFirst(d, i) ==
    Cardinality({j \in 1..Len(d) :
        \/ d[j].v.completed_at > d[i].v.completed_at
        \/ d[j].v.completed_at = d[i].v.completed_at /\ j < i})

\* the place of item i in completed_tasks.sort(key=completed_at): a stable sort
RankByCompletedAt(d, i) ==
    Cardinality({j \in 1..Len(d) :
        \/ d[j].v.completed_at < d[i].v.completed_at
        \/ d[j].v.completed_at = d[i].v.completed_at /\ j < i})

\* _cleanup_old_tasks at instant t: the new [tasks, results, last_cleanup]
CleanupOldTasks(ts, rs, last, t) ==
    IF t - last < tasks_cleanup_interval
    THEN [tasks |-> ts, results |-> rs, last_cleanup |-> last]
    ELSE LET cutoff_time == t - tasks_max_age
             old_task_ids == {ts[i].k : i \in {j \in 1..Len(ts) :
                                                  ts[j].v.created_at < cutoff_time}}
             ts1 == DictDelAll(ts, old_task_ids)
             completed_tasks == SelectSeq(ts1,
                                    LAMBDA e : e.v.status \in {"SUCCESS", "FAILURE"})
             to_remove == Len(completed_tasks) \div 2
             oldest == IF Len(ts1) > max_tasks_in_memory
                       THEN {completed_tasks[i].k :
                               i \in {j \in 1..Len(completed_tasks) :
                                         RankByCompletedAt(completed_tasks, j) < to_remove}}
                       ELSE {}
         IN  [tasks |-> DictDelAll(ts1, oldest),
              results |-> [i \in TaskIds |->
                              IF i \in old_task_ids \cup oldest THEN "absent" ELSE rs[i]],
              last_cleanup |-> t]

create_task ==
    /\ next_task_id <= MaxTasks
    /\ LET task_id == next_task_id
           cleaned == CleanupOldTasks(DictPut(tasks, task_id, NewTask(now)), results,
                                      tasks_last_cleanup, now)
       IN  /\ tasks' = cleaned.tasks
           /\ results' = cleaned.results
           /\ tasks_last_cleanup' = cleaned.last_cleanup
           /\ exec' = [exec EXCEPT ![task_id] = "queued"]
           /\ next_task_id' = task_id + 1
    /\ UNCHANGED <<job_outcome, cancel_result, cancelled_ok, status_result>>
    /\ UNCHANGED <<clockVars, limiterVars, cacheVars, poolVars>>

\* lines 89-90: self.tasks[task_id]['status'] = 'PROCESSING', with no look at
\* the status the record has
MarkProcessing(info, t) == [info EXCEPT !.status = "PROCESSING", !.started_at = t]

\* _execute_task up to the await.  With the record gone, line 89 raises
\* KeyError, the handler's line 109 raises it again and it leaves the coroutine
ExecStart(task_id) ==
    /\ exec[task_id] = "queued"
    /\ IF DictHas(tasks, task_id)
       THEN /\ tasks' = DictPut(tasks, task_id, MarkProcessing(DictVal(tasks, task_id), now))
            /\ exec' = [exec EXCEPT ![task_id] = "running"]
       ELSE /\ exec' = [exec EXCEPT ![task_id] = "escaped"]
            /\ UNCHANGED tasks
    /\ UNCHANGED <<results, tasks_last_cleanup, next_task_id, job_outcome,
                   cancel_result, cancelled_ok, status_result>>
    /\ UNCHANGED <<clockVars, limiterVars, cacheVars, poolVars>>

\* _execute_task after the await: the job returned `outcome` or raised
ExecFinish(task_id, outcome) ==
    /\ exec[task_id] = "running"
    /\ job_outcome' = [job_outcome EXCEPT ![task_id] = outcome]
    /\ IF DictHas(tasks, task_id)
       THEN /\ exec' = [exec EXCEPT ![task_id] = "done"]
            /\ IF outcome = "raise"
               THEN /\ tasks' = DictPut(tasks, task_id,
                                   [DictVal(tasks, task_id) EXCEPT
                                       !.status = "FAILURE", !.error = "error",
                                       !.completed_at = now])
                    /\ UNCHANGED results
               ELSE /\ tasks' = DictPut(tasks, task_id,
                                   [DictVal(tasks, task_id) EXCEPT
                                       !.status = "SUCCESS", !.completed_at = now])
                    /\ results' = [results EXCEPT ![task_id] = outcome]
       ELSE /\ exec' = [exec EXCEPT ![task_id] = "escaped"]
            /\ UNCHANGED <<tasks, results>>
    /\ UNCHANGED <<tasks_last_cleanup, next_task_id, cancel_result, cancelled_ok,
                   status_result>>
    /\ UNCHANGED <<clockVars, limiterVars, cacheVars, poolVars>>

\* task_info.get('status') of self.tasks.get(task_id, {})
StatusOf(ts, task_id) == IF DictHas(ts, task_id) THEN DictVal(ts, task_id).status ELSE "NOT_FOUND"

\* if task_info.get('status') == 'PENDING'
CancelGuard(status) == status = "PENDING"

cancel_task(task_id) ==
    /\ LET seen == StatusOf(tasks, task_id)
       IN  IF CancelGuard(seen)
           THEN /\ tasks' = DictPut(tasks, task_id,
                               [DictVal(tasks, task_id) EXCEPT
                                   !.status = "CANCELLED", !.completed_at = now])
                /\ cancel_result' = [seen |-> seen, ok |-> TRUE]
                /\ cancelled_ok' = cancelled_ok \cup {task_id}
           ELSE /\ cancel_result' = [seen |-> seen, ok |-> FALSE]
                /\ UNCHANGED <<tasks, cancelled_ok>>
    /\ UNCHANGED <<results, tasks_last_cleanup, next_task_id, exec, job_outcome,
                   status_result>>
    /\ UNCHANGED <<clockVars, limiterVars, cacheVars, poolVars>>

\* get_task_status: the response
get_task_statusMutantHidesCancelled(task_id) ==
    IF ~DictHas(tasks, task_id) \/ StatusOf(tasks, task_id) = "CANCELLED"
    THEN [status |-> "NOT_FOUND", result |-> "None", error |-> "Task not found or expired"]
    ELSE [status |-> DictVal(tasks, task_id).status, result |-> "None", error |-> ""]

get_task_status(task_id) ==
    IF ~DictHas(tasks, task_id)
    THEN [status |-> "NOT_FOUND", result |-> "None", error |-> "Task not found or expired"]
    ELSE LET info == DictVal(tasks, task_id)
             \* self.results.get(task_id)
             result == IF results[task_id] = "absent" THEN "None" ELSE results[task_id]
         IN  [status |-> info.status,
              \* attached when SUCCESS and result is not None
              result |-> IF info.status = "SUCCESS" THEN result ELSE "None",
              error  |-> IF info.status = "FAILURE" THEN info.error ELSE ""]

\* history: no status query yet
NoStatus == [status |-> "", existed |-> FALSE, submitted |-> FALSE]

\* a status query (async_pdf_replit.py line 226): get_task_status reads
\* self.tasks and self.results with .get and assigns nothing
GetTaskStatus(task_id) ==
    /\ status_result' = [status |-> get_task_status(task_id).status,
                         \* history: the record existed, the id had been given out
                         existed |-> DictHas(tasks, task_id),
                         submitted |-> task_id < next_task_id]
    /\ UNCHANGED <<tasks, results, tasks_last_cleanup, next_task_id, exec, job_outcome,
                   cancel_result, cancelled_ok>>
    /\ UNCHANGED <<clockVars, limiterVars, cacheVars, poolVars>>

\* the clock moves past the retention age
TickPastRetention ==
    /\ ticks < MaxTaskTicks
    /\ now' = now + tasks_max_age + 100
    /\ ticks' = ticks + 1
    /\ UNCHANGED <<calls, limiterVars, taskVars, cacheVars, poolVars>>

TickTasks ==
    /\ ticks < MaxTaskTicks
    /\ \E d \in TaskSteps : now' = now + d
    /\ ticks' = ticks + 1
    /\ UNCHANGED <<calls, limiterVars, taskVars, cacheVars, poolVars>>

(***************************************************************************)
(* ReplitCacheManager (replit_cache.py).                                   *)
(* A Python value is [tag, atom, kids]; a dict's kids are its items, each  *)
(* an "item" whose kids are <<key, value>>.  JSON text has its own tags    *)
(* ("jstr", "jnum", "jnull", "jarr", "jobj"), so that json.dumps and       *)
(* json.loads are modelled by what they do to a value.                     *)
(***************************************************************************)
VStr(a)     == [tag |-> "str",   atom |-> a,  kids |-> <<>>]
VInt(a)     == [tag |-> "int",   atom |-> a,  kids |-> <<>>]
VObj(a)     == [tag |-> "obj",   atom |-> a,  kids |-> <<>>]
VList(ks)   == [tag |-> "list",  atom |-> "", kids |-> ks]
VTuple(ks)  == [tag |-> "tuple", atom |-> "", kids |-> ks]
VItem(k, v) == [tag |-> "item",  atom |-> "", kids |-> <<k, v>>]
VDict(its)  == [tag |-> "dict",  atom |-> "", kids |-> its]
\* pickle.dumps(value).decode('latin1'): a str holding the pickle of value
VPickle(v)  == [tag |-> "pickle", atom |-> "", kids |-> <<v>>]
\* get's None
Absent      == [tag |-> "absent", atom |-> "", kids |-> <<>>]

\* json.dumps(value, default=str)
RECURSIVE JsonDumps(_)
JsonDumps(v) ==
    CASE v.tag = "str"    -> [tag |-> "jstr", atom |-> v.atom, kids |-> <<>>]
      [] v.tag = "int"    -> [tag |-> "jnum", atom |-> v.atom, kids |-> <<>>]
      [] v.tag = "obj"    -> [tag |-> "jstr", atom |-> v.atom, kids |-> <<>>]
      [] v.tag = "pickle" -> [tag |-> "jstr", atom |-> "pickle", kids |-> v.kids]
      [] v.tag \in {"list", "tuple"} ->
            [tag |-> "jarr", atom |-> "",
             kids |-> [i \in 1..Len(v.kids) |-> JsonDumps(v.kids[i])]]
      [] v.tag = "item"   ->
            \* a key is written as a string
            [tag |-> "jitem", atom |-> "",
             kids |-> <<[tag |-> "jstr", atom |-> v.kids[1].atom, kids |-> <<>>],
                        JsonDumps(v.kids[2])>>]
      [] v.tag = "dict"   ->
            [tag |-> "jobj", atom |-> "",
             kids |-> [i \in 1..Len(v.kids) |-> JsonDumps(v.kids[i])]]
      [] OTHER -> [tag |-> "jnull", atom |-> "", kids |-> <<>>]

\* json.loads(text)
RECURSIVE JsonLoads(_)
JsonLoads(j) ==
    CASE j.tag = "jstr" /\ j.atom = "pickle" /\ j.kids # <<>> -> VPickle(j.kids[1])
      [] j.tag = "jstr" /\ ~(j.atom = "pickle" /\ j.kids # <<>>) -> VStr(j.atom)
      [] j.tag = "jnum"  -> VInt(j.atom)
      [] j.tag = "jarr"  -> VList([i \in 1..Len(j.kids) |-> JsonLoads(j.kids[i])])
      [] j.tag = "jitem" -> VItem(JsonLoads(j.kids[1]), JsonLoads(j.kids[2]))
      [] j.tag = "jobj"  -> VDict([i \in 1..Len(j.kids) |-> JsonLoads(j.kids[i])])
      [] OTHER -> Absent

\* isinstance(value, (dict, list, str, int, float, bool)) or value is None
IsJsonType(v) == v.tag \in {"dict", "list", "str", "int"}

\* pickle.loads(item['value'].encode('latin1'))
PickleLoads(v) == IF v.tag = "pickle" THEN v.kids[1] ELSE Absent

CacheKeys == {"k1", "k2"}
\* a nested mapping and sequence {"a": ["b"]}, a mapping with an int key {1: "b"},
\* and a tuple ("a", "b")
CacheValues == {
    VDict(<<VItem(VStr("a"), VList(<<VStr("b")>>))>>),
    VDict(<<VItem(VInt("1"), VStr("b"))>>),
    VTuple(<<VStr("a"), VStr("b")>>) }
TTLs == {200, 7200}
CacheSteps == {300, 7300}
MaxSets == 2
MaxCacheTicks == 2

cache_cleanup_interval == 300
\* self.max_memory_items is 1000 in the source; scaled down here
max_memory_items == 1

\* _is_expired: datetime.utcnow() > expires_at
IsExpired(item, t) == t > item.expires_at

RankByCreatedAtMutantOldestFirst(d, i) ==
    Cardinality({j \in 1..Len(d) :
        \/ d[j].v.created_at < d[i].v.created_at
        \/ d[j].v.created_at = d[i].v.created_at /\ j < i})

\* the place of item i in sorted(items, key=created_at, reverse=True): stable
RankByCreatedAt(d, i) ==
    Cardinality({j \in 1..Len(d) :
        \/ d[j].v.created_at > d[i].v.created_at
        \/ d[j].v.created_at = d[i].v.created_at /\ j < i})

\* sorted(d.items(), key=created_at, reverse=True)[:n] as a dict
MostRecent(d, n) ==
    [r \in 1..n |-> d[CHOOSE i \in 1..Len(d) : RankByCreatedAt(d, i) = r - 1]]

\* _cleanup_memory at instant t: the new [memory_cache, last_cleanup]
CleanupMemory(mem, last, t) ==
    IF t - last < cache_cleanup_interval
    THEN [memory_cache |-> mem, last_cleanup |-> last]
    ELSE LET live == SelectSeq(mem, LAMBDA e : ~IsExpired(e.v, t))
         IN  [memory_cache |-> IF Len(live) > max_memory_items
                               THEN MostRecent(live, max_memory_items)
                               ELSE live,
              last_cleanup |-> t]

\* history: the set call that wrote an item (its key, instant and ttl)
NoOrigin == [key |-> "", time |-> None, ttl |-> 0]

\* history: the last set of a key (its value, instant and ttl, its place among
\* the sets, whether its write to the Replit DB raised, whether it returned True)
NoWrite == [value |-> Absent, time |-> None, ttl |-> 0, n |-> 0, db_failed |-> FALSE,
            returned |-> FALSE]

\* the entry of the Replit DB under "cache:<key>", or NoEntry
NoEntry == [value |-> [tag |-> "jnull", atom |-> "", kids |-> <<>>], created_at |-> None,
            expires_at |-> None, ttl |-> 0, pickled |-> FALSE, origin |-> NoOrigin]

\* json.dumps(cache_item, default=str); origin is history and travels with the item
Serialize(item) == [item EXCEPT !.value = JsonDumps(item.value)]

\* json.loads(db[db_key])
Deserialize(entry) == [entry EXCEPT !.value = JsonLoads(entry.value)]

\* set(key, value, ttl); db_fails: the write to the Replit DB raises
set(key, value, ttl, db_fails) ==
    /\ calls < MaxSets
    /\ calls' = calls + 1
    /\ LET cache_item == [value |-> value, created_at |-> now, expires_at |-> now + ttl,
                          ttl |-> ttl, pickled |-> FALSE,
                          origin |-> [key |-> key, time |-> now, ttl |-> ttl]]
           \* lines 92-93 assign into cache_item, the dict line 82 has put in
           \* self.memory_cache
           stored == IF db_available /\ ~IsJsonType(value)
                     THEN [cache_item EXCEPT !.value = VPickle(value), !.pickled = TRUE]
                     ELSE cache_item
           cleaned == CleanupMemory(DictPut(memory_cache, key, stored),
                                    cache_last_cleanup, now)
       IN  /\ memory_cache' = cleaned.memory_cache
           /\ cache_last_cleanup' = cleaned.last_cleanup
           /\ db' = IF db_available /\ ~db_fails
                    THEN [db EXCEPT ![key] = Serialize(stored)]
                    ELSE db
           /\ last_write' = [last_write EXCEPT
                                ![key] = [value |-> value, time |-> now, ttl |-> ttl,
                                          n |-> calls + 1, db_failed |-> db_fails,
                                          \* line 101: return True
                                          returned |-> TRUE]]
    /\ UNCHANGED <<db_available, get_result, key_calls>>
    /\ UNCHANGED <<now, ticks, limiterVars, taskVars, poolVars>>

Set == \E k \in CacheKeys, v \in CacheValues, ttl \in TTLs, f \in BOOLEAN :
          /\ (f => db_available)
          /\ set(k, v, ttl, f)

\* the sets of a client that stores one value, a tuple, under every key
SetTuple == \E k \in CacheKeys, ttl \in TTLs, f \in BOOLEAN :
               /\ (f => db_available)
               /\ set(k, VTuple(<<VStr("a"), VStr("b")>>), ttl, f)

\* lines 127-133: the item of the durable tier as it goes into the fast tier
PromoteMutantRefresh(item, t) ==
    [item EXCEPT !.value = IF item.pickled THEN PickleLoads(item.value) ELSE item.value,
                 !.pickled = FALSE, !.created_at = t, !.expires_at = t + item.ttl]

Promote(item, t) ==
    [item EXCEPT !.value = IF item.pickled THEN PickleLoads(item.value) ELSE item.value,
                 !.pickled = FALSE]

\* lines 136-138: the Replit DB after a lookup that found no live entry
ExpireDurableMutantKeep(d, key, in_db) == d

ExpireDurable(d, key, in_db) == IF in_db THEN [d EXCEPT ![key] = NoEntry] ELSE d

\* origin: the set that wrote the item served; last_set: the last set of the
\* key since its last delete (NoWrite: none)
NoGet == [key |-> "", hit |-> FALSE, value |-> Absent, tier |-> "", time |-> 0,
          origin |-> NoOrigin, expires_at |-> None, last_set |-> NoWrite]

\* get(key) at the current instant: the tiers afterwards and what get returns
Lookup(key) ==
    LET in_memory == DictHas(memory_cache, key)
        mem_item == DictVal(memory_cache, key)
        mem_hit == in_memory /\ ~IsExpired(mem_item, now)
        \* line 118: an expired item of the fast tier is deleted
        mem1 == IF in_memory /\ ~mem_hit THEN DictDel(memory_cache, key) ELSE memory_cache
        in_db == db_available /\ db[key] # NoEntry
        item == Deserialize(db[key])
        db_hit == in_db /\ ~IsExpired(item, now)
    IN  IF mem_hit
        THEN [memory_cache |-> memory_cache, db |-> db,
              get_result |-> [key |-> key, hit |-> TRUE, value |-> mem_item.value,
                              tier |-> "memory", time |-> now, origin |-> mem_item.origin,
                              expires_at |-> mem_item.expires_at,
                              last_set |-> last_write[key]]]
        ELSE IF db_hit
        THEN [memory_cache |-> DictPut(mem1, key, Promote(item, now)), db |-> db,
              get_result |-> [key |-> key, hit |-> TRUE,
                              value |-> Promote(item, now).value,
                              tier |-> "db", time |-> now,
                              origin |-> item.origin,
                              expires_at |-> item.expires_at,
                              last_set |-> last_write[key]]]
        ELSE [memory_cache |-> mem1,
              \* line 138: an expired entry of the durable tier is deleted
              db |-> ExpireDurable(db, key, in_db),
              get_result |-> [NoGet EXCEPT !.key = key, !.time = now,
                                           !.last_set = last_write[key]]]

get(key) ==
    /\ memory_cache' = Lookup(key).memory_cache
    /\ db' = Lookup(key).db
    /\ get_result' = Lookup(key).get_result
    /\ UNCHANGED <<db_available, cache_last_cleanup, last_write, key_calls>>
    /\ UNCHANGED <<clockVars, limiterVars, taskVars, poolVars>>

Get == \E k \in CacheKeys : get(k)

delete(key) ==
    /\ memory_cache' = DictDel(memory_cache, key)
    /\ db' = IF db_available THEN [db EXCEPT ![key] = NoEntry] ELSE db
    /\ last_write' = [last_write EXCEPT ![key] = NoWrite]
    /\ UNCHANGED <<db_available, cache_last_cleanup, get_result, key_calls>>
    /\ UNCHANGED <<clockVars, limiterVars, taskVars, poolVars>>

Delete == \E k \in CacheKeys : delete(k)

\* delete(key) when `del db[db_key]` (line 168) raises: the fast tier's item is
\* gone (line 162), the entry of the Replit DB stays, and the handler of line
\* 174 returns False
delete_fails(key) ==
    /\ db_available
    /\ db[key] # NoEntry
    /\ memory_cache' = DictDel(memory_cache, key)
    /\ last_write' = [last_write EXCEPT ![key] = NoWrite]
    /\ UNCHANGED <<db, db_available, cache_last_cleanup, get_result, key_calls>>
    /\ UNCHANGED <<clockVars, limiterVars, taskVars, poolVars>>

DeleteFails == \E k \in CacheKeys : delete_fails(k)

TickCache ==
    /\ ticks < MaxCacheTicks
    /\ \E d \in CacheSteps : now' = now + d
    /\ ticks' = ticks + 1
    /\ UNCHANGED <<calls, limiterVars, taskVars, cacheVars, poolVars>>

(***************************************************************************)
(* generate_cache_key (replit_cache.py lines 197-201).  A text is a        *)
(* sequence of tokens; the options are a dict of the form fields the       *)
(* endpoint passes (async_pdf_replit.py lines 155-159).                    *)
(***************************************************************************)
VBool(a) == [tag |-> "bool", atom |-> a, kids |-> <<>>]

MaxKeyCalls == 2
FileHashes == {"h1", "h2"}
Engines == {"auto", "google"}
\* the option names, in the order of str comparison
OptionNames == <<"dual_language", "target_language", "translate_enabled">>
\* every dict over these names, in every insertion order
OptionMaps ==
    {VDict(<<VItem(VStr(n), v)>>) :
        n \in {"dual_language", "target_language"}, v \in {VBool("true"), VStr("en")}}
    \cup
    {VDict(<<VItem(VStr("dual_language"), v), VItem(VStr("target_language"), w)>>) :
        v \in {VBool("true"), VBool("false")}, w \in {VStr("en"), VStr("fr")}}
    \cup
    {VDict(<<VItem(VStr("target_language"), w), VItem(VStr("dual_language"), v)>>) :
        v \in {VBool("true"), VBool("false")}, w \in {VStr("en"), VStr("fr")}}

NameIndex(n) == CHOOSE i \in 1..Len(OptionNames) : OptionNames[i] = n

\* sort_keys=True: the items in the order of their keys
SortItemsMutantInsertionOrder(items) == items

SortItems(items) ==
    [r \in 1..Len(items) |->
        items[CHOOSE i \in 1..Len(items) :
                 Cardinality({j \in 1..Len(items) :
                     NameIndex(items[j].kids[1].atom) < NameIndex(items[i].kids[1].atom)})
                 = r - 1]]

\* json.dumps of a str or a bool
DumpsValue(v) == IF v.tag = "str" THEN <<"\"", v.atom, "\"">> ELSE <<v.atom>>

RECURSIVE JoinItems(_)
JoinItems(items) ==
    IF items = <<>> THEN <<>>
    ELSE <<"\"", Head(items).kids[1].atom, "\"", ":", " ">>
         \o DumpsValue(Head(items).kids[2])
         \o (IF Len(items) > 1 THEN <<",", " ">> ELSE <<>>)
         \o JoinItems(Tail(items))

\* json.dumps(options, sort_keys=True)
DumpsSorted(options) == <<"{">> \o JoinItems(SortItems(options.kids)) \o <<"}">>

\* hashlib.md5(text.encode()).hexdigest(): the digest of the text, taken to
\* have no collision among the texts of the model
Md5Hex(text) == [md5 |-> text]

generate_cache_key(file_hash, engine, options) ==
    LET options_str == DumpsSorted(options)
        combined == <<file_hash, ":", engine, ":">> \o options_str
    IN  <<"pdf_result:", Md5Hex(combined)>>

GenerateCacheKey ==
    /\ Len(key_calls) < MaxKeyCalls
    /\ \E file_hash \in FileHashes, engine \in Engines, options \in OptionMaps :
          key_calls' = Append(key_calls,
                              [file_hash |-> file_hash, engine |-> engine,
                               options |-> options,
                               key |-> generate_cache_key(file_hash, engine, options)])
    /\ UNCHANGED <<memory_cache, db, db_available, cache_last_cleanup, last_write,
                   get_result>>
    /\ UNCHANGED <<clockVars, limiterVars, taskVars, poolVars>>

(***************************************************************************)
(* ApiKeyPool (api_key_service.py).  get_key, add_key and remove_key each  *)
(* run under self.lock: one action per call.  The pool is constructed from *)
(* a non-empty list of distinct keys (initialize_api_key_pools creates a   *)
(* pool only when the configured list is not empty).                       *)
(***************************************************************************)
Creds == {"a", "b", "c"}
InitialKeys == {<<"a">>, <<"a", "b">>, <<"a", "b", "c">>}
\* rate_limit_per_minute is 60 (gemini) or 20 (openrouter) in the source;
\* scaled down here so that a key reaches its budget
Budgets == {1, 2}
PoolSteps == {30, 61}
MaxAcquires == 4
MaxPoolChanges == 1
MaxPoolTicks == 2

one_minute == 60

\* [timestamp for timestamp in self.usage_counts[key] if timestamp > one_minute_ago]
PruneUsage(ts, one_minute_ago) == SelectSeq(ts, LAMBDA x : x > one_minute_ago)

\* lines 38-42: every key of self.keys gets its pruned list
PruneAll(uc, ks, t) ==
    [i \in 1..Len(uc) |->
        IF uc[i].k \in {ks[j] : j \in 1..Len(ks)}
        THEN [k |-> uc[i].k, v |-> PruneUsage(uc[i].v, t - one_minute)]
        ELSE uc[i]]

\* the index line 46 computes at turn i (1..N) of the loop, from cursor c
TurnMutantFromCursor(c, i, n) == (c + i - 1) % n

Turn(c, i, n) == (c + i) % n

\* line 49: if len(self.usage_counts[key]) < self.rate_limit_per_minute
UnderBudgetMutantInclusive(used, budget) == used <= budget

UnderBudget(used, budget) == used < budget

\* min(timestamps) if timestamps else float('inf'); Infinity stands for inf
Infinity == 1000000
RECURSIVE MinOf(_)
MinOf(ts) == IF ts = <<>> THEN Infinity
             ELSE IF MinOf(Tail(ts)) < Head(ts) THEN MinOf(Tail(ts)) ELSE Head(ts)

\* min(oldest_timestamps, key=oldest_timestamps.get): the first minimal key
\* in the dict's order
KeyWithOldestMutantLast(uc) == uc[Len(uc)].k

KeyWithOldest(uc) ==
    uc[CHOOSE i \in 1..Len(uc) :
          /\ \A j \in 1..Len(uc) : MinOf(uc[i].v) <= MinOf(uc[j].v)
          /\ \A j \in 1..(i - 1) : MinOf(uc[j].v) > MinOf(uc[i].v)].k

NoKey == [key |-> "", raised |-> FALSE, time |-> 0, cursor |-> -1, keys |-> <<>>,
          used |-> [c \in Creds |-> 0], fallback |-> FALSE]

get_key ==
    /\ Len(key_log) < MaxAcquires
    /\ LET current_time == now
           n == Len(keys)
           uc == PruneAll(usage_counts, keys, current_time)
           used == [c \in Creds |-> IF DictHas(uc, c) THEN Len(DictVal(uc, c)) ELSE 0]
           free == {i \in 1..n :
                      UnderBudget(used[keys[Turn(last_used_index, i, n) + 1]],
                                  rate_limit_per_minute)}
           seen == [key |-> "", raised |-> FALSE, time |-> current_time,
                    cursor |-> last_used_index, keys |-> keys, used |-> used,
                    fallback |-> FALSE]
       IN  IF \E j \in 1..n : ~DictHas(usage_counts, keys[j])
           THEN \* line 40 raises KeyError at the first key without a usage list;
                \* the keys before it have been pruned
                LET first == CHOOSE j \in 1..n :
                                /\ ~DictHas(usage_counts, keys[j])
                                /\ \A h \in 1..(j - 1) : DictHas(usage_counts, keys[h])
                IN  /\ key_result' = [seen EXCEPT !.raised = TRUE]
                    /\ usage_counts' = PruneAll(usage_counts, SubSeq(keys, 1, first - 1),
                                                current_time)
                    /\ UNCHANGED <<last_used_index, key_log>>
           ELSE IF free # {}
           THEN LET i == CHOOSE x \in free : \A y \in free : x <= y
                    key == keys[Turn(last_used_index, i, n) + 1]
                IN  /\ last_used_index' = Turn(last_used_index, i, n)
                    /\ usage_counts' = DictPut(uc, key, Append(DictVal(uc, key), current_time))
                    /\ key_result' = [seen EXCEPT !.key = key]
                    /\ key_log' = Append(key_log, [key |-> key, time |-> current_time])
           ELSE IF n > 0
           THEN LET key_with_oldest == KeyWithOldest(uc)
                IN  \* the loop has advanced the cursor through every turn
                    /\ last_used_index' = Turn(last_used_index, n, n)
                    /\ usage_counts' = DictPut(uc, key_with_oldest,
                                           Append(DictVal(uc, key_with_oldest), current_time))
                    /\ key_result' = [seen EXCEPT !.key = key_with_oldest,
                                                  !.fallback = TRUE]
                    /\ key_log' = Append(key_log, [key |-> key_with_oldest,
                                                   time |-> current_time])
           ELSE \* an empty pool: min() of an empty dict raises ValueError
                /\ key_result' = [seen EXCEPT !.raised = TRUE]
                /\ usage_counts' = uc
                /\ UNCHANGED <<last_used_index, key_log>>
    /\ UNCHANGED <<keys, rate_limit_per_minute, pool_fixed, threadVars, expected_len>>
    /\ UNCHANGED <<clockVars, limiterVars, taskVars, cacheVars, refreshVars>>

add_key(key) ==
    /\ calls < MaxPoolChanges
    /\ calls' = calls + 1
    /\ key \notin {keys[j] : j \in 1..Len(keys)}
    /\ keys' = Append(keys, key)
    /\ usage_counts' = DictPut(usage_counts, key, <<>>)
    /\ pool_fixed' = FALSE
    /\ expected_len' = [expected_len EXCEPT ![key] = 0]
    /\ UNCHANGED <<last_used_index, rate_limit_per_minute, key_result, key_log, threadVars>>
    /\ UNCHANGED <<now, ticks, limiterVars, taskVars, cacheVars, refreshVars>>

AddKey == \E c \in Creds : add_key(c)

remove_key(key) ==
    /\ calls < MaxPoolChanges
    /\ calls' = calls + 1
    /\ key \in {keys[j] : j \in 1..Len(keys)}
    /\ LET first == CHOOSE i \in 1..Len(keys) :
                       keys[i] = key /\ \A j \in 1..(i - 1) : keys[j] # key
       IN  keys' = [i \in 1..(Len(keys) - 1) |-> IF i < first THEN keys[i] ELSE keys[i + 1]]
    /\ usage_counts' = DictDel(usage_counts, key)
    /\ pool_fixed' = FALSE
    /\ expected_len' = [expected_len EXCEPT ![key] = 0]
    /\ UNCHANGED <<last_used_index, rate_limit_per_minute, key_result, key_log, threadVars>>
    /\ UNCHANGED <<now, ticks, limiterVars, taskVars, cacheVars, refreshVars>>

RemoveKey == \E c \in Creds : remove_key(c)

TickPool ==
    /\ ticks < MaxPoolTicks
    /\ \E d \in PoolSteps : now' = now + d
    /\ ticks' = ticks + 1
    /\ UNCHANGED <<calls, limiterVars, taskVars, cacheVars, poolVars>>

(***************************************************************************)
(* ApiKeyPool under threads.  get_key, add_key and remove_key run their    *)
(* bodies under `with self.lock` (a threading.Lock).  Here get_key is cut  *)
(* into the steps between which another thread could run if the lock did   *)
(* not stop it: the rebinding of the usage lists (lines 38-42) reads, then *)
(* assigns; the rotation (line 46) reads the cursor, then assigns it.      *)
(***************************************************************************)
Threads == {1, 2}
MaxOpsPerThread == 2

\* with self.lock: the lock can be taken when no thread holds it
LockFreeMutantAlways(l) == TRUE

LockFree(l) == l = 0

NoChoice == [key |-> "", cursor |-> -1, fallback |-> FALSE, raised |-> FALSE]

NoLocal == [ops |-> 0, current_time |-> 0, pruned |-> <<>>,
            drop |-> [c \in Creds |-> 0], seen_cursor |-> -1, choice |-> NoChoice]

\* lines 45-69 on the state they read: the key to return and the cursor to
\* leave (raised: min() of an empty dict)
Selection(uc, ks, cursor, budget) ==
    LET n == Len(ks)
        used(c) == IF DictHas(uc, c) THEN Len(DictVal(uc, c)) ELSE 0
        free == {i \in 1..n : UnderBudget(used(ks[Turn(cursor, i, n) + 1]), budget)}
    IN  IF free # {}
        THEN LET i == CHOOSE x \in free : \A y \in free : x <= y
             IN  [key |-> ks[Turn(cursor, i, n) + 1], cursor |-> Turn(cursor, i, n),
                  fallback |-> FALSE, raised |-> FALSE]
        ELSE IF n > 0 /\ uc # <<>>
        THEN [key |-> KeyWithOldest(uc), cursor |-> Turn(cursor, n, n),
              fallback |-> TRUE, raised |-> FALSE]
        ELSE [key |-> "", cursor |-> cursor, fallback |-> TRUE, raised |-> TRUE]

\* lines 33-42, reading: take the lock, read the clock, build the pruned lists
GetEnter(th) ==
    /\ pc[th] = "idle"
    /\ local[th].ops < MaxOpsPerThread
    /\ LockFree(lock)
    /\ lock' = th
    /\ LET pruned == PruneAll(usage_counts, keys, now)
       IN  local' = [local EXCEPT ![th] =
                       [ops |-> local[th].ops + 1, current_time |-> now,
                        pruned |-> pruned,
                        drop |-> [c \in Creds |->
                                    IF DictHas(usage_counts, c)
                                    THEN Len(DictVal(usage_counts, c)) - Len(DictVal(pruned, c))
                                    ELSE 0],
                        seen_cursor |-> -1, choice |-> NoChoice]]
    /\ pc' = [pc EXCEPT ![th] = "pruned"]
    /\ UNCHANGED <<keys, usage_counts, last_used_index, rate_limit_per_minute,
                   key_result, key_log, pool_fixed, expected_len>>
    /\ UNCHANGED <<clockVars, limiterVars, taskVars, cacheVars, refreshVars>>

\* lines 38-42, assigning: self.usage_counts[key] = the pruned list
GetPruneWrite(th) ==
    /\ pc[th] = "pruned"
    /\ usage_counts' = local[th].pruned
    /\ expected_len' = [c \in Creds |-> expected_len[c] - local[th].drop[c]]
    /\ pc' = [pc EXCEPT ![th] = "select"]
    /\ UNCHANGED <<keys, last_used_index, rate_limit_per_minute, key_result, key_log,
                   pool_fixed, lock, local>>
    /\ UNCHANGED <<clockVars, limiterVars, taskVars, cacheVars, refreshVars>>

\* lines 45-61, reading: the cursor and the counts the selection is made from
GetSelectRead(th) ==
    /\ pc[th] = "select"
    /\ local' = [local EXCEPT ![th] =
                   [@ EXCEPT !.seen_cursor = last_used_index,
                             !.choice = Selection(usage_counts, keys, last_used_index,
                                                  rate_limit_per_minute)]]
    /\ pc' = [pc EXCEPT ![th] = "chosen"]
    /\ UNCHANGED <<keys, usage_counts, last_used_index, rate_limit_per_minute,
                   key_result, key_log, pool_fixed, lock, expected_len>>
    /\ UNCHANGED <<clockVars, limiterVars, taskVars, cacheVars, refreshVars>>

\* lines 46-52 / 61-69, assigning: the cursor, the append to the key's list,
\* the return; the lock is released on return and on an exception
GetSelectWrite(th) ==
    /\ pc[th] = "chosen"
    /\ LET l == local[th]
           ch == l.choice
           ok == ~ch.raised /\ DictHas(usage_counts, ch.key)
           seen == [key |-> ch.key, raised |-> ~ok, time |-> l.current_time,
                    cursor |-> l.seen_cursor, keys |-> keys,
                    used |-> [c \in Creds |-> IF DictHas(usage_counts, c)
                                              THEN Len(DictVal(usage_counts, c)) ELSE 0],
                    fallback |-> ch.fallback]
       IN  /\ key_result' = seen
           /\ IF ok
              THEN /\ last_used_index' = ch.cursor
                   /\ usage_counts' = DictPut(usage_counts, ch.key,
                                          Append(DictVal(usage_counts, ch.key),
                                                 l.current_time))
                   /\ expected_len' = [expected_len EXCEPT ![ch.key] = @ + 1]
                   /\ key_log' = Append(key_log, [key |-> ch.key, time |-> l.current_time])
              ELSE UNCHANGED <<last_used_index, usage_counts, expected_len, key_log>>
    /\ lock' = 0
    /\ pc' = [pc EXCEPT ![th] = "idle"]
    /\ local' = [local EXCEPT ![th] = [NoLocal EXCEPT !.ops = local[th].ops]]
    /\ UNCHANGED <<keys, rate_limit_per_minute, pool_fixed>>
    /\ UNCHANGED <<clockVars, limiterVars, taskVars, cacheVars, refreshVars>>

\* add_key / remove_key of a thread: the whole body runs with the lock held
ThreadAddKey == LockFree(lock) /\ AddKey

ThreadRemoveKey == LockFree(lock) /\ RemoveKey

(***************************************************************************)
(* get_usage_stats (api_key_service.py lines 89-113) and                   *)
(* update_api_key_pool_from_db (lines 246-283).                            *)
(***************************************************************************)
\* the text of a credential: a and b differ in one character of the middle
KeyText(c) ==
    CASE c = "a" -> <<"s", "k", "-", "1", "A", "0", "0", "0", "1">>
      [] c = "b" -> <<"s", "k", "-", "1", "B", "0", "0", "0", "1">>
      [] OTHER   -> <<"s", "k", "-", "1", "C", "0", "0", "0", "2">>

\* f"{key[:4]}...{key[-4:]}" if len(key) > 8 else "***"
MaskedKey(text) ==
    IF Len(text) > 8
    THEN SubSeq(text, 1, 4) \o <<"...">> \o SubSeq(text, Len(text) - 3, Len(text))
    ELSE <<"***">>

\* history: no get_usage_stats yet
NoStats == [stats |-> <<>>, raised |-> FALSE, time |-> -1, keys |-> <<>>,
            recent |-> [c \in Creds |-> 0]]

\* lines 98-111: stats[masked_key] = {...} for the first n keys of self.keys
RECURSIVE StatsOf(_, _, _, _)
StatsOf(ks, uc, t, n) ==
    IF n = 0 THEN <<>>
    ELSE DictPut(StatsOf(ks, uc, t, n - 1), MaskedKey(KeyText(ks[n])),
                 Len(PruneUsage(DictVal(uc, ks[n]), t - one_minute)))

\* get_usage_stats, under the lock; a key without a usage list raises KeyError
get_usage_stats ==
    /\ LockFree(lock)
    /\ LET complete == \A j \in 1..Len(keys) : DictHas(usage_counts, keys[j])
       IN  stats_result' =
             [stats  |-> IF complete THEN StatsOf(keys, usage_counts, now, Len(keys))
                         ELSE <<>>,
              raised |-> ~complete,
              time   |-> now,
              keys   |-> keys,
              \* history: the timestamps of each credential in the trailing minute
              recent |-> [c \in Creds |->
                            IF DictHas(usage_counts, c)
                            THEN Len(PruneUsage(DictVal(usage_counts, c), now - one_minute))
                            ELSE 0]]
    /\ UNCHANGED <<keys, usage_counts, last_used_index, rate_limit_per_minute,
                   key_result, key_log, pool_fixed, threadVars, expected_len, refreshing>>
    /\ UNCHANGED <<clockVars, limiterVars, taskVars, cacheVars>>

\* the key lists a refresh installs from the settings
NewKeyLists == {<<"b">>, <<"a", "c">>, <<"a", "b", "c">>}

\* update_api_key_pool_from_db, first assignment (line 264): pool.keys = keys;
\* no lock is taken
RefreshKeys ==
    /\ calls < MaxPoolChanges
    /\ calls' = calls + 1
    /\ refreshing = <<>>
    /\ \E new \in NewKeyLists :
          /\ keys' = new
          /\ refreshing' = new
    /\ pool_fixed' = FALSE
    /\ UNCHANGED <<usage_counts, last_used_index, rate_limit_per_minute, key_result,
                   key_log, threadVars, expected_len, stats_result>>
    /\ UNCHANGED <<now, ticks, limiterVars, taskVars, cacheVars>>

\* second assignment (line 265): pool.usage_counts = {key: [] for key in keys}
RefreshUsage ==
    /\ refreshing # <<>>
    /\ usage_counts' = [i \in 1..Len(refreshing) |-> [k |-> refreshing[i], v |-> <<>>]]
    /\ expected_len' = [c \in Creds |-> 0]
    /\ refreshing' = <<>>
    /\ UNCHANGED <<keys, last_used_index, rate_limit_per_minute, key_result, key_log,
                   pool_fixed, threadVars, stats_result>>
    /\ UNCHANGED <<clockVars, limiterVars, taskVars, cacheVars>>

(***************************************************************************)
(* Initial states and specifications.                                      *)
(***************************************************************************)
NoCancel == [seen |-> "", ok |-> FALSE]

\* the state after construction; lims, wins, avail, ks, budgets: the
\* configurations the specification starts from
InitWith(lims, wins, avail, ks, budgets) ==
    /\ now = 0 /\ ticks = 0 /\ calls = 0
    \* SimpleRateLimiter.__init__
    /\ limit \in lims
    /\ window \in wins
    /\ requests = <<>>
    /\ limiter_last_cleanup = 0
    /\ check_result = NoCheck
    /\ admitted = [u \in Users |-> <<>>]
    /\ checked = [u \in Users |-> <<>>]
    \* TaskManager.__init__
    /\ tasks = <<>>
    /\ results = [i \in TaskIds |-> "absent"]
    /\ tasks_last_cleanup = 0
    /\ next_task_id = 1
    /\ exec = [i \in TaskIds |-> "none"]
    /\ job_outcome = [i \in TaskIds |-> "notrun"]
    /\ cancel_result = NoCancel
    /\ cancelled_ok = {}
    /\ status_result = NoStatus
    \* ReplitCacheManager.__init__
    /\ db_available \in avail
    /\ memory_cache = <<>>
    /\ db = [k \in CacheKeys |-> NoEntry]
    /\ cache_last_cleanup = 0
    /\ last_write = [k \in CacheKeys |-> NoWrite]
    /\ get_result = NoGet
    /\ key_calls = <<>>
    \* ApiKeyPool.__init__
    /\ keys \in ks
    /\ rate_limit_per_minute \in budgets
    /\ usage_counts = [i \in 1..Len(keys) |-> [k |-> keys[i], v |-> <<>>]]
    /\ last_used_index = -1
    /\ key_result = NoKey
    /\ key_log = <<>>
    /\ pool_fixed = TRUE
    /\ stats_result = NoStats
    /\ refreshing = <<>>
    /\ lock = 0
    /\ pc = [th \in Threads |-> "idle"]
    /\ local = [th \in Threads |-> NoLocal]
    /\ expected_len = [c \in Creds |-> 0]

(***************************************************************************)
(* process_pdf_file (api/v1/endpoints/async_pdf_replit.py lines 21-87), the *)
(* job the endpoint hands to create_task, run by _execute_task.  From the   *)
(* return of the PDF service to the write of the task's status nothing is   *)
(* awaited, so the rest of the job and of _execute_task is one step.        *)
(***************************************************************************)
\* line 66: ttl=7200
result_ttl == 7200

\* lines 56-63: final_result, a dict that holds the PDF service's result
FinalResult(content) == VDict(<<VItem(VStr("content"), VStr(content))>>)

\* line 66: cache_manager.set(cache_key, final_result, ttl=7200), as set above
CachedByJob(key, value, db_fails) ==
    LET stored == [value |-> value, created_at |-> now, expires_at |-> now + result_ttl,
                   ttl |-> result_ttl, pickled |-> FALSE,
                   origin |-> [key |-> key, time |-> now, ttl |-> result_ttl]]
        cleaned == CleanupMemory(DictPut(memory_cache, key, stored), cache_last_cleanup, now)
    IN  [memory_cache |-> cleaned.memory_cache, last_cleanup |-> cleaned.last_cleanup,
         db |-> IF db_available /\ ~db_fails THEN [db EXCEPT ![key] = Serialize(stored)]
                ELSE db,
         last_write |-> [last_write EXCEPT
                            ![key] = [value |-> value, time |-> now, ttl |-> result_ttl,
                                      n |-> calls + 1, db_failed |-> db_fails,
                                      returned |-> TRUE]],
         calls |-> calls + 1]

\* the PDF service returned `outcome` or raised, for the request whose cache
\* key is `key`: lines 53-76 or 78-87, then _execute_task lines 100-111
process_pdf_file(task_id, outcome, key, db_fails) ==
    /\ exec[task_id] = "running"
    /\ job_outcome' = [job_outcome EXCEPT ![task_id] = outcome]
    /\ IF outcome = "raise"
       THEN UNCHANGED <<memory_cache, cache_last_cleanup, db, last_write, calls>>
       ELSE LET c == CachedByJob(key, FinalResult(outcome), db_fails)
            IN  /\ memory_cache' = c.memory_cache
                /\ cache_last_cleanup' = c.last_cleanup
                /\ db' = c.db
                /\ last_write' = c.last_write
                /\ calls' = c.calls
    /\ IF DictHas(tasks, task_id)
       THEN /\ exec' = [exec EXCEPT ![task_id] = "done"]
            /\ IF outcome = "raise"
               THEN /\ tasks' = DictPut(tasks, task_id,
                                   [DictVal(tasks, task_id) EXCEPT
                                       !.status = "FAILURE", !.error = "error",
                                       !.completed_at = now])
                    /\ UNCHANGED results
               ELSE /\ tasks' = DictPut(tasks, task_id,
                                   [DictVal(tasks, task_id) EXCEPT
                                       !.status = "SUCCESS", !.completed_at = now])
                    /\ results' = [results EXCEPT ![task_id] = outcome]
       ELSE /\ exec' = [exec EXCEPT ![task_id] = "escaped"]
            /\ UNCHANGED <<tasks, results>>
    /\ UNCHANGED <<tasks_last_cleanup, next_task_id, cancel_result, cancelled_ok,
                   status_result>>
    /\ UNCHANGED <<db_available, get_result, key_calls>>
    /\ UNCHANGED <<now, ticks, limiterVars, poolVars>>

ProcessPdfFile ==
    \E id \in 1..MaxSubmits, o \in JobValues \cup {"raise"}, k \in CacheKeys, f \in BOOLEAN :
        /\ (f => db_available)
        /\ process_pdf_file(id, o, k, f)

(***************************************************************************)
(* async_pdf_replit.py, process_pdf_async_endpoint.  The handler asks the  *)
(* limiter (lines 126-137), awaits the upload (line 141) and then, with no *)
(* further await, derives the key, looks the cache up and, on a miss,      *)
(* creates the task (lines 152-194).  The first part is check_rate_limit;  *)
(* the part after the await is one step.                                   *)
(***************************************************************************)
\* lines 155-159: translation_options, here with the defaults of the form
TranslationOptions ==
    VDict(<<VItem(VStr("translate_enabled"), VBool("false")),
            VItem(VStr("target_language"), VStr("simplified-chinese")),
            VItem(VStr("dual_language"), VBool("false"))>>)

\* the name this model's cache gives the key of an upload with this digest
CacheKeyName(file_hash) == IF file_hash = "h1" THEN "k1" ELSE "k2"

\* the requests the limiter let through that are at `await file.read()`
Awaiting ==
    Len(admitted["u1"]) + Len(admitted["u2"]) + Len(admitted["u3"]) - Len(key_calls)

\* line 165: `if cached_result:`; the cached results are non-empty dicts
AnsweredFromCacheMutantNever(found) == FALSE

AnsweredFromCache(found) == found.hit

process_pdf_async_endpoint(file_hash) ==
    /\ Awaiting > 0
    /\ next_task_id <= MaxTasks
    /\ LET cache_key == generate_cache_key(file_hash, "auto", TranslationOptions)
           cached == Lookup(CacheKeyName(file_hash))
           task_id == next_task_id
           cleaned == CleanupOldTasks(DictPut(tasks, task_id, NewTask(now)), results,
                                      tasks_last_cleanup, now)
       IN  /\ key_calls' = Append(key_calls,
                                  [file_hash |-> file_hash, engine |-> "auto",
                                   options |-> TranslationOptions, key |-> cache_key])
           /\ memory_cache' = cached.memory_cache
           /\ db' = cached.db
           /\ get_result' = cached.get_result
           /\ IF AnsweredFromCache(cached.get_result)
              THEN \* lines 166-174: the CACHED response
                   UNCHANGED <<tasks, results, tasks_last_cleanup, exec, next_task_id>>
              ELSE \* lines 185-194: task_manager.create_task
                   /\ tasks' = cleaned.tasks
                   /\ results' = cleaned.results
                   /\ tasks_last_cleanup' = cleaned.last_cleanup
                   /\ exec' = [exec EXCEPT ![task_id] = "queued"]
                   /\ next_task_id' = task_id + 1
    /\ UNCHANGED <<job_outcome, cancel_result, cancelled_ok, status_result>>
    /\ UNCHANGED <<db_available, cache_last_cleanup, last_write>>
    /\ UNCHANGED <<clockVars, limiterVars, poolVars>>

ProcessPdfAsyncEndpoint == \E file_hash \in FileHashes : process_pdf_async_endpoint(file_hash)

InitLimiter == InitWith(Limits, Windows, {FALSE}, {<<"a">>}, {1})
NextLimiter == CheckRateLimit \/ TickLimiter
SpecLimiter == InitLimiter /\ [][NextLimiter]_vars

\* the limiter of the endpoint (one window) with checks whose bookkeeping fails
InitFailOpen == InitWith(Limits, {3600}, {FALSE}, {<<"a">>}, {1})
NextFailOpen == CheckFailOpenUser \/ CheckFails \/ TickLimiter
SpecFailOpen == InitFailOpen /\ [][NextFailOpen]_vars

InitTasks == InitWith({1}, {3600}, {FALSE}, {<<"a">>}, {1})
NextTasks ==
    \/ create_task
    \/ \E id \in TaskIds : ExecStart(id)
    \/ \E id \in TaskIds, o \in JobValues \cup {"raise"} : ExecFinish(id, o)
    \/ \E id \in TaskIds : cancel_task(id)
    \/ TickTasks
SpecTasks == InitTasks /\ [][NextTasks]_vars

\* the task manager with its status queries, for MaxSubmits submissions
\* the task manager without cancellation: what retention depends on (ages,
\* statuses, completion times, the number of records) varies as in SpecTasks
InitRetention == InitWith({1}, {3600}, {FALSE}, {<<"a">>}, {1})
NextRetention ==
    \/ create_task
    \/ \E id \in TaskIds : ExecStart(id)
    \/ \E id \in TaskIds, o \in JobValues \cup {"raise"} : ExecFinish(id, o)
    \/ TickTasks
SpecRetention == InitRetention /\ [][NextRetention]_vars

InitStatus == InitWith({1}, {3600}, {FALSE}, {<<"a">>}, {1})
\* the cancel of a client that cancels what it has seen PENDING
CancelPending == \E id \in 1..MaxSubmits : StatusOf(tasks, id) = "PENDING" /\ cancel_task(id)
Submit == next_task_id <= MaxSubmits /\ create_task
NextStatus ==
    \/ Submit
    \/ \E id \in 1..MaxSubmits : ExecStart(id)
    \/ \E id \in 1..MaxSubmits, o \in JobValues \cup {"raise"} : ExecFinish(id, o)
    \/ CancelPending
    \/ \E id \in 1..(MaxSubmits + 1) : GetTaskStatus(id)
    \/ TickPastRetention
SpecStatus == InitStatus /\ [][NextStatus]_vars

InitCache == InitWith({1}, {3600}, BOOLEAN, {<<"a">>}, {1})
NextCache == Set \/ Get \/ Delete \/ TickCache
SpecCache == InitCache /\ [][NextCache]_vars

\* the cache under the client that stores one value: what expiry depends on
\* (instants, ttls, tiers, failed writes) varies as in SpecCache
InitExpiry == InitWith({1}, {3600}, BOOLEAN, {<<"a">>}, {1})
NextExpiry == SetTuple \/ Get \/ Delete \/ TickCache
SpecExpiry == InitExpiry /\ [][NextExpiry]_vars

\* the endpoint's tasks and cache: requests are submitted, their jobs run and
\* cache their results, later requests look their cache keys up (line 163)
InitWriteThrough == InitWith({1}, {3600}, BOOLEAN, {<<"a">>}, {1})
NextWriteThrough ==
    \/ Submit
    \/ \E id \in 1..MaxSubmits : ExecStart(id)
    \/ ProcessPdfFile
    \/ Get
    \/ TickCache
SpecWriteThrough == InitWriteThrough /\ [][NextWriteThrough]_vars

\* the endpoint with its limiter, its cache and its tasks
InitEndpoint == InitWith({1}, {3600}, {TRUE}, {<<"a">>}, {1})
NextEndpoint ==
    \/ CheckFailOpenUser
    \/ ProcessPdfAsyncEndpoint
    \/ (\E id \in 1..MaxSubmits : ExecStart(id))
    \/ ProcessPdfFile
SpecEndpoint == InitEndpoint /\ [][NextEndpoint]_vars

\* the cache with a Replit DB whose writes and deletes can raise
InitDurableFaults == InitWith({1}, {3600}, {TRUE}, {<<"a">>}, {1})
NextDurableFaults == SetTuple \/ Get \/ Delete \/ DeleteFails \/ TickCache
SpecDurableFaults == InitDurableFaults /\ [][NextDurableFaults]_vars

InitPool == InitWith({1}, {3600}, {FALSE}, InitialKeys, Budgets)
NextPool == get_key \/ AddKey \/ RemoveKey \/ TickPool
SpecPool == InitPool /\ [][NextPool]_vars

\* the pool with its usage statistics
InitStats == InitWith({1}, {3600}, {FALSE}, InitialKeys, Budgets)
NextStats == get_key \/ get_usage_stats \/ AddKey \/ RemoveKey \/ TickPool
SpecStats == InitStats /\ [][NextStats]_vars

\* the pool while update_api_key_pool_from_db replaces its keys
InitRefresh == InitWith({1}, {3600}, {FALSE}, InitialKeys, Budgets)
NextRefresh == get_key \/ get_usage_stats \/ RefreshKeys \/ RefreshUsage \/ TickPool
SpecRefresh == InitRefresh /\ [][NextRefresh]_vars

\* generate_cache_key alone
InitKey == InitWith({1}, {3600}, {FALSE}, {<<"a">>}, {1})
NextKey == GenerateCacheKey
SpecKey == InitKey /\ [][NextKey]_vars

\* the pool shared by the threads of Threads, created with two credentials
InitPoolThreads == InitWith({1}, {3600}, {FALSE}, {<<"a", "b">>}, Budgets)
NextPoolThreads ==
    \/ \E th \in Threads : GetEnter(th)
    \/ \E th \in Threads : GetPruneWrite(th)
    \/ \E th \in Threads : GetSelectRead(th)
    \/ \E th \in Threads : GetSelectWrite(th)
    \/ ThreadAddKey
    \/ ThreadRemoveKey
    \/ TickPool
SpecPoolThreads == InitPoolThreads /\ [][NextPoolThreads]_vars

(***************************************************************************)
(* Claims about the rate limiter (SpecLimiter).                            *)
(***************************************************************************)

\* C1: admission bound.  For every identity, no more than `limit` allowed
\* checks fall in an interval of length `window`: counting back from any
\* allowed check, at most `limit` allowed checks of that identity (itself
\* included) are less than `window` seconds older.
C1_AdmissionBound ==
    \A u \in Users : \A i \in 1..Len(admitted[u]) :
        Cardinality({j \in 1..i : admitted[u][j].t > admitted[u][i].t - window}) <= limit

\* C10: check-and-append is one step.  Of the checks of one identity at one
\* instant, the one that sees count = limit - 1 is the last one allowed: no
\* later check of that identity at that instant is allowed too.
C10_OneAdmissionAtBoundary ==
    \A u \in Users : \A i, j \in 1..Len(admitted[u]) :
        (i < j /\ admitted[u][i].t = admitted[u][j].t)
            => admitted[u][i].before # limit - 1

\* how many of the checks of u before its i-th one were allowed
AllowedBefore(u, i) == Cardinality({j \in 1..(i - 1) : checked[u][j].allowed})

\* C12 (as claimed): after `limit` allowed checks, a check that comes at
\* least `window` seconds after the identity's previous check is allowed.
C12_RecoveryAtLeastWindow ==
    \A u \in Users : \A i \in 2..Len(checked[u]) :
        ( /\ AllowedBefore(u, i) >= limit
          /\ checked[u][i].t - checked[u][i - 1].t >= window )
        => checked[u][i].allowed

\* C12 (amended): after `limit` allowed checks, a check that comes more than
\* `window` seconds after the identity's previous check is allowed.
C12_RecoveryAfterWindow ==
    \A u \in Users : \A i \in 2..Len(checked[u]) :
        ( /\ AllowedBefore(u, i) >= limit
          /\ checked[u][i].t - checked[u][i - 1].t > window )
        => checked[u][i].allowed

\* an identity that used its whole quota, was denied, stayed away for more
\* than the window and was allowed again
C12_Witness ==
    \E u \in Users : \E i \in 3..Len(checked[u]) :
        /\ AllowedBefore(u, i - 1) >= limit
        /\ ~checked[u][i - 1].allowed
        /\ checked[u][i].t - checked[u][i - 1].t > window
        /\ checked[u][i].allowed

\* C13: a check that is denied returns a reset_time such that the same
\* identity, with no check of its own in between, is allowed when it checks
\* again at or after that reset_time.
C13_RetryAtResetTime ==
    \A u \in Users : \A i \in 2..Len(checked[u]) :
        ( /\ ~checked[u][i - 1].allowed
          /\ checked[u][i].t >= checked[u][i - 1].reset_time )
        => checked[u][i].allowed

\* C14: for an identity with no history, the k-th check made within the
\* window of the first one is allowed with current_count = k and remaining =
\* limit - k for k <= limit, and the (limit+1)-th is denied with remaining =
\* 0; every check returns remaining = max(0, limit - count after the update).
C14_RemainingAccounting ==
    \A u \in Users : \A k \in 1..Len(checked[u]) :
        LET c == checked[u][k]
        IN  /\ c.remaining = Max(0, limit - c.current_count)
            /\ (c.t - checked[u][1].t < window)
                 => /\ k <= limit
                         => (c.allowed /\ c.current_count = k /\ c.remaining = limit - k)
                    /\ k = limit + 1 => (~c.allowed /\ c.remaining = 0)

\* the queue of the identity of the last check, when that check has just
\* returned (nothing has happened since at a later instant)
LedgerAfterCheck ==
    IF check_result # NoCheck /\ ~check_result.error /\ check_result.time = now
       /\ DictHas(requests, check_result.user)
    THEN DictVal(requests, check_result.user)
    ELSE <<>>

\* C37 as stated: after a check every timestamp of the identity's queue is at
\* or after now - window and the queue is strictly increasing, also for
\* several checks at the same instant.
C37_LedgerStrictlyIncreasing ==
    LET q == LedgerAfterCheck
    IN  /\ \A i \in 1..Len(q) : q[i] >= now - window
        /\ \A i \in 1..Len(q) - 1 : q[i] < q[i + 1]

\* C37 amended: after a check every timestamp of the identity's queue is at
\* or after now - window and the queue is in chronological order, two
\* admissions at the same instant holding equal timestamps.
C37_LedgerChronological ==
    LET q == LedgerAfterCheck
    IN  /\ \A i \in 1..Len(q) : q[i] >= now - window
        /\ \A i \in 1..Len(q) - 1 : q[i] <= q[i + 1]

\* an identity was admitted twice at one instant after an earlier admission
\* that has left the window: its queue holds two equal timestamps
C37_Witness ==
    /\ Len(LedgerAfterCheck) = 2
    /\ LedgerAfterCheck[1] = LedgerAfterCheck[2]
    /\ check_result.allowed
    /\ Len(admitted[check_result.user]) >= 3

\* the last request a cleanup finds for identity c, when the check that runs
\* it is the check of u and is admitted or not (None: no request)
LastFound(c, u, is_admitted) ==
    IF c = u /\ is_admitted THEN now
    ELSE IF DictHas(requests, c) /\ DictVal(requests, c) # <<>>
    THEN DictVal(requests, c)[Len(DictVal(requests, c))]
    ELSE None

\* C35: limiter memory bound.  When the cleanup runs, every identity whose
\* last request is more than an hour old is dropped; if more identities than
\* max_users_tracked remain, exactly floor(0.8 x max_users_tracked) are kept,
\* none of them less recently active than one that is evicted; if not, all
\* that remain are kept.
C35_LimiterMemoryBound ==
    [][limiter_last_cleanup' # limiter_last_cleanup
        => \A u \in Users : \A a \in BOOLEAN :
             (check_result'.user = u /\ check_result'.allowed = a)
             => LET active == {c \in DictKeys(requests) \cup {u} :
                                  /\ LastFound(c, u, a) # None
                                  /\ LastFound(c, u, a) >= now - limiter_inactive_after}
                    kept == DictKeys(requests')
                IN  /\ now - limiter_last_cleanup >= limiter_cleanup_interval
                    /\ kept \subseteq active
                    /\ Cardinality(active) <= max_users_tracked => kept = active
                    /\ Cardinality(active) > max_users_tracked
                          => /\ Cardinality(kept) = (max_users_tracked * 8) \div 10
                             /\ \A r \in active \ kept, k \in kept :
                                   LastFound(r, u, a) <= LastFound(k, u, a) ]_vars

\* a cleanup has just run with more identities than the ceiling: it kept
\* floor(0.8 x ceiling) of them and evicted one admitted within the last hour
C35_Witness ==
    /\ limiter_last_cleanup = now /\ now > 0
    /\ check_result.time = now
    /\ Len(requests) = (max_users_tracked * 8) \div 10
    /\ Cardinality({u \in Users :
           /\ ~DictHas(requests, u)
           /\ admitted[u] # <<>>
           /\ admitted[u][Len(admitted[u])].t >= now - limiter_inactive_after})
         > max_users_tracked - (max_users_tracked * 8) \div 10

\* the identities that have been tracked so far
Tracked == {u \in Users : checked[u] # <<>>}

\* what a limiter that never cleans up holds for the identity of the last
\* check when that check begins: its admissions within the window, the one of
\* this check left out
WithoutCleanup ==
    LET u == check_result.user
        n == Len(admitted[u])
        earlier == IF check_result.allowed THEN SubSeq(admitted[u], 1, n - 1)
                   ELSE admitted[u]
    IN  Len(SelectSeq(earlier, LAMBDA a : a.t >= check_result.time - window))

\* C36: cleanup transparency.  With a window of at most one hour and no more
\* tracked identities than the ceiling (fewer than the ceiling included), every
\* check returns the allowed, remaining and current_count a limiter without
\* cleanup returns.
C36_CleanupTransparent ==
    (/\ check_result # NoCheck /\ ~check_result.error
     /\ window <= limiter_inactive_after
     /\ Cardinality(Tracked) <= max_users_tracked)
    => LET before == WithoutCleanup
           count == IF before < limit THEN before + 1 ELSE before
       IN  /\ check_result.allowed <=> before < limit
           /\ check_result.current_count = count
           /\ check_result.remaining = Max(0, limit - count)

\* an identity was denied, an hour later its queue was emptied and the
\* identity dropped by the cleanup of another identity's check, and its next
\* check found no history and was allowed, as without cleanup
C36_Witness ==
    /\ window <= limiter_inactive_after
    /\ Cardinality(Tracked) = 2
    /\ Cardinality(Tracked) <= max_users_tracked
    /\ check_result.allowed /\ check_result.time = now /\ check_result.before = 0
    /\ Len(admitted[check_result.user]) = 2
    /\ \E j \in 1..Len(checked[check_result.user]) :
          ~checked[check_result.user][j].allowed
    /\ \E u \in Tracked \ {check_result.user} :
          admitted[u][Len(admitted[u])].t < now
    /\ Len(requests) = 1

\* C25: fail open.  A check whose bookkeeping raises returns allowed = TRUE
\* with an error indication (and the full limit as remaining): it does not
\* deny, whatever the identity has consumed.
C25_FailOpen ==
    check_result.error
    => /\ check_result.allowed
       /\ check_result.remaining = check_result.limit
       /\ check_result.current_count = 0

\* the check of an identity that is at its limit failed, and was allowed
C25_Witness ==
    /\ check_result.error
    /\ check_result.allowed
    /\ check_result.time = now
    /\ DictHas(requests, check_result.user)
    /\ Len(PopLeftWhileOlder(DictVal(requests, check_result.user), now - window)) >= limit

\* the sequence of timestamps the limiter holds for u (none: empty)
RequestsOf(reqs, u) == IF DictHas(reqs, u) THEN DictVal(reqs, u) ELSE <<>>

\* s is what is left of q after dropping some of its first elements
IsSuffix(s, q) ==
    /\ Len(s) <= Len(q)
    /\ \A i \in 1..Len(s) : s[i] = q[Len(q) - Len(s) + i]

\* C23: quota is consumed only on admission.  A check that returns allowed
\* leaves the identity's sequence with the current instant appended, once,
\* to what was left of it; a check that returns denied appends nothing: the
\* sequence it leaves is what was left of the old one, never longer.
C23_ConsumedOnlyOnAdmission ==
    [][\A u \in Users :
          checked'[u] # checked[u]
          => LET c == checked'[u][Len(checked'[u])]
                 before == RequestsOf(requests, u)
                 after  == RequestsOf(requests', u)
             IN  IF c.allowed
                 THEN /\ after # <<>>
                      /\ after[Len(after)] = now
                      /\ IsSuffix(SubSeq(after, 1, Len(after) - 1), before)
                 ELSE IsSuffix(after, before) ]_vars

\* an identity at its limit was denied twice in a row and its sequence is
\* still the one admission it had
C23_Witness ==
    \E u \in Users :
        /\ Len(checked[u]) >= 3
        /\ ~checked[u][Len(checked[u])].allowed
        /\ ~checked[u][Len(checked[u]) - 1].allowed
        /\ Len(RequestsOf(requests, u)) = limit

(***************************************************************************)
(* Claims about the task manager (SpecTasks).                              *)
(***************************************************************************)
AllowedTransitions == {<<"PENDING", "PROCESSING">>, <<"PROCESSING", "SUCCESS">>,
                       <<"PROCESSING", "FAILURE">>, <<"PENDING", "CANCELLED">>}

\* C2: task state machine.  Whenever the status of a record changes, the
\* change is PENDING->PROCESSING, PROCESSING->SUCCESS, PROCESSING->FAILURE or
\* PENDING->CANCELLED; so SUCCESS, FAILURE and CANCELLED are terminal.
C2_TaskStateMachine ==
    [][\A id \in TaskIds :
          (/\ DictHas(tasks, id)
           /\ DictHas(tasks', id)
           /\ StatusOf(tasks, id) # StatusOf(tasks', id))
          => <<StatusOf(tasks, id), StatusOf(tasks', id)>> \in AllowedTransitions]_vars

\* C3: cancel_task returns True exactly when the status it finds is PENDING,
\* and a task whose cancel returned True reads CANCELLED in every later
\* get_task_status.
C3_CancelOnlyPendingAndSticky ==
    /\ cancel_result # NoCancel => (cancel_result.ok <=> cancel_result.seen = "PENDING")
    /\ \A id \in cancelled_ok : get_task_status(id).status = "CANCELLED"

\* C9: task completion.  When the job of a task that was not cancelled
\* returns or raises, the task becomes SUCCESS with the job's return value
\* in its status, or FAILURE with an error description (it does not stay
\* PROCESSING, and its outcome is not lost).
C9_TaskCompletes ==
    [][\A id \in TaskIds :
          (/\ exec[id] = "running"
           /\ exec'[id] # "running"
           /\ id \notin cancelled_ok)
          => \/ /\ job_outcome'[id] \in JobValues
                /\ get_task_status(id)'.status = "SUCCESS"
                /\ get_task_status(id)'.result = job_outcome'[id]
             \/ /\ job_outcome'[id] = "raise"
                /\ get_task_status(id)'.status = "FAILURE"
                /\ get_task_status(id)'.error # ""]_vars

\* C21: create_task does not block.  When it returns, the record of the new
\* task exists and reads PENDING, the job has been queued and not invoked,
\* and when the queued execution then starts the status reads PROCESSING: a
\* status query right after create_task never reads NOT_FOUND.
C21_SubmitNonBlocking ==
    [][\A id \in TaskIds :
          /\ (id = next_task_id /\ next_task_id' # next_task_id)
                => /\ next_task_id' = id + 1
                   /\ get_task_status(id)'.status = "PENDING"
                   /\ exec'[id] = "queued"
                   /\ job_outcome'[id] = "notrun"
          /\ (exec[id] = "queued" /\ exec'[id] = "running")
                => get_task_status(id)'.status = "PROCESSING" ]_vars

\* a second task has just been created by a create_task that ran the
\* cleanup, and its execution is queued
C21_Witness ==
    /\ next_task_id = 3
    /\ exec[2] = "queued"
    /\ tasks_last_cleanup = now
    /\ now > 0
    /\ get_task_status(2).status = "PENDING"

Statuses == {"PENDING", "PROCESSING", "SUCCESS", "FAILURE", "CANCELLED"}

\* C22: get_task_status returns NOT_FOUND exactly when no record of the id
\* exists (the id was never given out, or its record was purged), returns
\* one of the five statuses for every record that exists, and changes no
\* record and no result.
C22_NotFoundExactly ==
    /\ [](status_result # NoStatus
            => /\ status_result.status = "NOT_FOUND" <=> ~status_result.existed
               /\ status_result.existed => status_result.status \in Statuses
               /\ ~status_result.submitted => ~status_result.existed)
    /\ [][status_result' # status_result => (tasks' = tasks /\ results' = results)]_vars

\* the three cases: a query of an id never given out, a query of a purged
\* task, and a query of a cancelled task whose record exists
C22_Witness ==
    /\ status_result.submitted
    /\ ~status_result.existed
    /\ status_result.status = "NOT_FOUND"
    /\ DictHas(tasks, 2)

\* the records a cleanup finds: those of the state and the new record of the
\* create_task that runs it
FoundByCleanup == DictPut(tasks, next_task_id, NewTask(now))

\* the records of FoundByCleanup created more than 24 hours ago
Aged == {id \in DictKeys(FoundByCleanup) :
            DictVal(FoundByCleanup, id).created_at < now - tasks_max_age}

\* the SUCCESS and FAILURE records among the others
Completed == {id \in DictKeys(FoundByCleanup) \ Aged :
                 DictVal(FoundByCleanup, id).status \in {"SUCCESS", "FAILURE"}}

\* C33: task retention.  A cleanup removes every record created more than 24
\* hours ago; if more records than the ceiling remain, it removes half (rounded
\* down) of the SUCCESS and FAILURE records, none of them completed later than
\* one it keeps, and no other record; if not, it removes nothing more.  A
\* removed record loses its result, a kept one is unchanged.
C33_TaskRetention ==
    [][tasks_last_cleanup' # tasks_last_cleanup
        => LET rest == DictKeys(FoundByCleanup) \ Aged
               by_size == rest \ DictKeys(tasks')
           IN  /\ DictKeys(tasks') \subseteq rest
               /\ Cardinality(rest) <= max_tasks_in_memory => by_size = {}
               /\ Cardinality(rest) > max_tasks_in_memory
                     => /\ by_size \subseteq Completed
                        /\ Cardinality(by_size) = Cardinality(Completed) \div 2
                        /\ \A r \in by_size, k \in Completed \ by_size :
                              DictVal(FoundByCleanup, r).completed_at
                                 <= DictVal(FoundByCleanup, k).completed_at
               /\ \A id \in DictKeys(tasks') :
                     DictVal(tasks', id) = DictVal(FoundByCleanup, id)
               /\ \A id \in TaskIds :
                     results'[id] = IF id \in Aged \cup by_size THEN "absent"
                                    ELSE results[id] ]_vars

\* a cleanup found more records than the ceiling, none of them aged, and
\* removed the earlier completed of two completed records, keeping a
\* PROCESSING record
C33_Witness ==
    /\ tasks_last_cleanup = now
    /\ now > 0
    /\ next_task_id = MaxTasks + 1
    /\ Len(tasks) = MaxTasks - 1
    /\ \E i \in 1..Len(tasks) : tasks[i].v.status = "PROCESSING"
    /\ \E i \in 1..Len(tasks) : tasks[i].v.status \in {"SUCCESS", "FAILURE"}
    /\ \A i \in 1..Len(tasks) : tasks[i].v.created_at >= now - tasks_max_age

\* C39: task record shape.  In every state each record has a start time exactly
\* when its status is PROCESSING, SUCCESS or FAILURE, a completion time
\* exactly when its status is SUCCESS, FAILURE or CANCELLED, a result only
\* when SUCCESS and an error description only when FAILURE.
C39_RecordShape ==
    \A i \in 1..Len(tasks) :
        LET id == tasks[i].k
            info == tasks[i].v
        IN  /\ info.started_at # None <=> info.status \in {"PROCESSING", "SUCCESS", "FAILURE"}
            /\ info.completed_at # None <=> info.status \in {"SUCCESS", "FAILURE", "CANCELLED"}
            /\ results[id] # "absent" => info.status = "SUCCESS"
            /\ info.error # "" => info.status = "FAILURE"
            /\ ~(results[id] # "absent" /\ info.error # "")

\* C28: retention spares live tasks.  No step removes the record of a task
\* that is PENDING or PROCESSING, so every execution that starts finds the
\* record, and every execution that ends leaves its outcome on the record.
C28_RetentionSparesLive ==
    [][\A id \in TaskIds :
          /\ (DictHas(tasks, id) /\ StatusOf(tasks, id) \in {"PENDING", "PROCESSING"})
                => DictHas(tasks', id)
          /\ (exec[id] = "queued" /\ exec'[id] # "queued")
                => (DictHas(tasks, id) /\ exec'[id] = "running")
          /\ (exec[id] = "running" /\ exec'[id] # "running")
                => /\ DictHas(tasks', id)
                   /\ StatusOf(tasks', id) \in {"SUCCESS", "FAILURE"} ]_vars

\* C19: a failure of the job is captured.  When the job of a task raises,
\* the exception does not leave _execute_task, and the only effect is that
\* the record of the task becomes FAILURE with an error description and a
\* completion time; no result and no other record changes.
C19_FailureCaptured ==
    [][\A id \in TaskIds :
          (/\ exec[id] = "running"
           /\ exec'[id] # "running"
           /\ job_outcome'[id] = "raise")
          => /\ exec'[id] = "done"
             /\ DictHas(tasks', id)
             /\ DictVal(tasks', id).status = "FAILURE"
             /\ DictVal(tasks', id).error # ""
             /\ DictVal(tasks', id).completed_at = now
             /\ results' = results
             /\ \A other \in TaskIds \ {id} :
                   /\ DictHas(tasks', other) <=> DictHas(tasks, other)
                   /\ DictHas(tasks, other)
                         => DictVal(tasks', other) = DictVal(tasks, other)]_vars

\* C20: a cancellation before execution is honoured.  Once cancel_task has
\* returned True for a task (it was PENDING), the job of the task is never
\* invoked.
C20_CancelledNeverRuns ==
    \A id \in cancelled_ok : exec[id] # "running"

(***************************************************************************)
(* Claims about the cache (SpecCache, SpecExpiry).                         *)
(***************************************************************************)

\* C4: cache round-trip.  A get of a key whose last set (with no delete
\* since) stored v with ttl returns v unchanged when it is issued before
\* the ttl has elapsed, and absent when it is issued after.
C4_CacheRoundTrip ==
    (get_result.key \in CacheKeys /\ get_result.last_set # NoWrite)
    => LET w == get_result.last_set
       IN  /\ get_result.time <= w.time + w.ttl
                => (get_result.hit /\ get_result.value = w.value)
           /\ get_result.time > w.time + w.ttl => ~get_result.hit

\* C5: cache expiry.  A value a get returns was written by a set whose
\* expiry (its time plus its ttl) has not passed at the get, whichever tier
\* served it; and every item of the fast tier, promoted from the durable
\* tier or not, carries the expiry of the set that wrote it.
C5_NeverServesExpired ==
    /\ get_result.hit
         => LET w == get_result.origin
            IN  /\ w.key = get_result.key
                /\ get_result.time <= w.time + w.ttl
                /\ get_result.expires_at = w.time + w.ttl
    /\ \A i \in 1..Len(memory_cache) :
          LET w == memory_cache[i].v.origin
          IN  /\ w.key = memory_cache[i].k
              /\ memory_cache[i].v.expires_at = w.time + w.ttl

\* a get served by the durable tier, later than the set that wrote the
\* entry, which promoted the entry into the fast tier
C5_Witness ==
    /\ get_result.hit
    /\ get_result.tier = "db"
    /\ get_result.time > get_result.origin.time
    /\ DictHas(memory_cache, get_result.key)
    /\ DictVal(memory_cache, get_result.key).origin = get_result.origin

\* C30: write-through on completion.  The step that makes a task SUCCESS has
\* written the job's result to the cache, with the TTL of two hours, under the
\* request's cache key; a lookup of a key within the TTL of its last write
\* returns the result written; the step that makes a task FAILURE leaves
\* the cache as it was.
C30_WriteThrough ==
    /\ []((get_result.key \in CacheKeys /\ get_result.last_set # NoWrite
             /\ get_result.time <= get_result.last_set.time + get_result.last_set.ttl)
           => (get_result.hit /\ get_result.value = get_result.last_set.value))
    /\ [][\A id \in TaskIds :
            /\ (StatusOf(tasks, id) # "SUCCESS" /\ StatusOf(tasks', id) = "SUCCESS")
                  => \E k \in CacheKeys :
                        /\ last_write'[k].n = calls' /\ calls' = calls + 1
                        /\ last_write'[k].value = FinalResult(results'[id])
                        /\ last_write'[k].time = now
                        /\ last_write'[k].ttl = result_ttl
            /\ (StatusOf(tasks, id) # "FAILURE" /\ StatusOf(tasks', id) = "FAILURE")
                  => UNCHANGED <<memory_cache, db, last_write>> ]_vars

\* C31: request control flow.  A request asks the limiter first: the check
\* looks nothing up and submits nothing, and only an admitted request goes on.
\* The request that goes on is one the limiter admitted; it looks the cache up
\* once, at its own key, without asking the limiter again; answered from the
\* cache it submits no task, and on a miss it submits exactly one task.
LimiterConsulted == checked' # checked
CacheConsulted == key_calls' # key_calls
LastChecked == CHOOSE u \in Users : checked'[u] # checked[u]
C34_Eviction ==
    [][cache_last_cleanup' # cache_last_cleanup
        => \E k \in CacheKeys :
              LET live == {c \in DictKeys(memory_cache) \ {k} :
                              ~IsExpired(DictVal(memory_cache, c), now)}
                  kept == DictKeys(memory_cache')
              IN  /\ last_write'[k].n = calls' /\ calls' = calls + 1
                  /\ now - cache_last_cleanup >= cache_cleanup_interval
                  /\ cache_last_cleanup' = now
                  /\ kept \subseteq live \cup {k}
                  /\ Cardinality(kept) <= max_memory_items
                  /\ \A c \in kept : ~IsExpired(DictVal(memory_cache', c), now)
                  /\ \A c \in kept \ {k} : DictVal(memory_cache', c) = DictVal(memory_cache, c)
                  /\ k \in kept => DictVal(memory_cache', k).created_at = now
                  /\ k \notin kept => \A c \in kept : DictVal(memory_cache', c).created_at >= now
                  /\ Cardinality(live) + 1 <= max_memory_items => kept = live \cup {k}
                  /\ Cardinality(live) + 1 > max_memory_items
                        => Cardinality(kept) = max_memory_items
                  /\ \A r \in live \ kept, c \in kept :
                        DictVal(memory_cache, r).created_at
                           <= DictVal(memory_cache', c).created_at ]_vars

\* a cleanup has just run for a set and evicted the unexpired item of the
\* other key, which the durable tier still holds
C34_Witness ==
    /\ cache_last_cleanup = now /\ now > 0
    /\ Len(memory_cache) = max_memory_items
    /\ \E k \in CacheKeys :
          /\ ~DictHas(memory_cache, k)
          /\ last_write[k] # NoWrite
          /\ now <= last_write[k].time + last_write[k].ttl
          /\ db_available /\ db[k] # NoEntry

\* C27: no stale reads.  A get of a key that returns a value returns the one
\* written by the last set of the key, and returns none when the key was
\* deleted since: never the value of an earlier set, whether or not the write
\* or delete in the Replit DB raised and the fast tier's item is still there.
C27_NoStaleReads ==
    (get_result.key \in CacheKeys /\ get_result.hit)
    => /\ get_result.last_set # NoWrite
       /\ get_result.origin.time = get_result.last_set.time
       /\ get_result.origin.ttl = get_result.last_set.ttl

\* the fast tier holds an unexpired item under k
FastLive(k) == DictHas(memory_cache, k) /\ ~IsExpired(DictVal(memory_cache, k), now)

\* the durable tier holds an unexpired entry under k
DurableLive(k) == db_available /\ db[k] # NoEntry /\ ~IsExpired(db[k], now)

\* C26: two-tier lookup.  A get of k is served by the fast tier when that holds
\* an unexpired item; otherwise an expired item of the fast tier is evicted and
\* the durable tier is consulted: an unexpired entry is returned and copied,
\* with its expiry, into the fast tier, where it is a hit for the next get; an
\* expired entry is deleted from the durable tier and the get returns absent.
C26_TwoTierLookup ==
    [][\A k \in CacheKeys :
          (get_result' # get_result /\ get_result'.key = k)
          => /\ FastLive(k)
                  => /\ get_result'.hit /\ get_result'.tier = "memory"
                     /\ get_result'.value = DictVal(memory_cache, k).value
                     /\ memory_cache' = memory_cache /\ db' = db
             /\ (~FastLive(k) /\ DurableLive(k))
                  => /\ get_result'.hit /\ get_result'.tier = "db"
                     /\ get_result'.origin = db[k].origin
                     /\ db' = db
                     /\ FastLive(k)'
                     /\ DictVal(memory_cache, k)'.value = get_result'.value
                     /\ DictVal(memory_cache, k)'.expires_at = db[k].expires_at
             /\ (~FastLive(k) /\ ~DurableLive(k))
                  => /\ ~get_result'.hit
                     /\ ~DictHas(memory_cache, k)'
                     /\ db_available => db'[k] = NoEntry ]_vars

\* a get found the fast tier's item of its key expired and the durable tier's
\* entry expired: afterwards neither tier holds the key, though it was set
C26_Witness ==
    /\ get_result.key \in CacheKeys
    /\ ~get_result.hit
    /\ get_result.time = now
    /\ get_result.last_set # NoWrite
    /\ ~get_result.last_set.db_failed
    /\ db_available
    /\ db[get_result.key] = NoEntry
    /\ ~DictHas(memory_cache, get_result.key)

(***************************************************************************)
(* Claims about the credential pool (SpecPool).                            *)
(***************************************************************************)
KeySet(ks) == {ks[i] : i \in 1..Len(ks)}

\* C6: in every pool state reachable through construction, add_key,
\* remove_key and get_key, get_key returns a key that is a member of the
\* pool and never raises.
C6_AlwaysReturnsMember ==
    key_result # NoKey
    => (~key_result.raised /\ key_result.key \in KeySet(key_result.keys))

\* acquisitions up to the m-th one that fall in the minute ending at it
InTrailingMinute(m) ==
    {l \in 1..m : key_log[l].time > key_log[m].time - one_minute}

\* uses of credential c in the minute ending at the j-th acquisition, before it
UsedBefore(c, j) ==
    Cardinality({l \in 1..(j - 1) :
                    key_log[l].key = c /\ key_log[l].time > key_log[j].time - one_minute})

\* C7: round-robin fairness.  In a fixed pool of N credentials with budget
\* B, when the same credential is returned by the i-th and the j-th
\* acquisition and fewer than N x B acquisitions fall in the minute ending
\* at each acquisition from i to j, every other credential that still has
\* budget at the j-th acquisition was returned between the two.
C7_RoundRobin ==
    pool_fixed
    => \A i, j \in 1..Len(key_log) :
          ( /\ i < j
            /\ key_log[i].key = key_log[j].key
            /\ \A m \in i..j :
                  Cardinality(InTrailingMinute(m)) < Len(keys) * rate_limit_per_minute )
          => \A c \in KeySet(keys) \ {key_log[j].key} :
                UsedBefore(c, j) < rate_limit_per_minute
                => \E m \in (i + 1)..(j - 1) : key_log[m].key = c

\* a fixed pool of three credentials in which one credential came back
\* after the two others, under the budget, had each been returned once
C7_Witness ==
    /\ pool_fixed
    /\ Len(keys) = 3
    /\ \E i, j \in 1..Len(key_log) :
          /\ j = i + 3
          /\ key_log[i].key = key_log[j].key
          /\ \A m \in i..j :
                Cardinality(InTrailingMinute(m)) < Len(keys) * rate_limit_per_minute
          /\ \A c \in KeySet(keys) \ {key_log[j].key} :
                /\ UsedBefore(c, j) < rate_limit_per_minute
                /\ \E m \in (i + 1)..(j - 1) : key_log[m].key = c

\* the turns of the rotation, after the cursor the call started from, whose
\* credential had fewer uses in the trailing minute than the budget
FreeTurns(r) ==
    {i \in 1..Len(r.keys) :
        r.used[r.keys[((r.cursor + i) % Len(r.keys)) + 1]] < rate_limit_per_minute}

\* C8: rate-aware selection.  When some credential of the pool is under the
\* budget, get_key returns the first such credential in rotation order
\* after the cursor, and the credential it returns is under the budget.
C8_FirstUnderBudget ==
    (key_result # NoKey /\ FreeTurns(key_result) # {})
    => LET i == CHOOSE x \in FreeTurns(key_result) :
                   \A y \in FreeTurns(key_result) : x <= y
       IN  /\ ~key_result.raised
           /\ ~key_result.fallback
           /\ key_result.key
                = key_result.keys[((key_result.cursor + i) % Len(key_result.keys)) + 1]
           /\ key_result.used[key_result.key] < rate_limit_per_minute

\* a call that passed over a credential at its budget and returned a later
\* one of the rotation
C8_Witness ==
    /\ key_result # NoKey
    /\ FreeTurns(key_result) # {}
    /\ 1 \notin FreeTurns(key_result)
    /\ key_result.used[key_result.key] < rate_limit_per_minute
    /\ key_result.key \in KeySet(key_result.keys)

\* the value the durable tier holds for v: its JSON text, or for a value
\* that is no JSON type the JSON text of its pickle
DurableEncoding(v) == JsonDumps(IF IsJsonType(v) THEN v ELSE VPickle(v))

\* C17: write to both tiers.  When set(key, v, ttl) has returned, the fast
\* tier holds an entry for key with value v and expiry now + ttl; when the
\* durable tier is available and its write did not fail, the durable tier
\* holds the encoding of v with the same expiry; when the write failed, set
\* has still returned True and the fast tier holds the new entry.
C17_WriteBothTiers ==
    [][ \A k \in CacheKeys :
          last_write'[k].n > last_write[k].n
          => LET w == last_write'[k]
             IN  /\ w.returned
                 /\ DictHas(memory_cache', k)
                 /\ DictVal(memory_cache', k).value = w.value
                 /\ DictVal(memory_cache', k).expires_at = w.time + w.ttl
                 /\ (db_available /\ ~w.db_failed)
                       => /\ db'[k].value = DurableEncoding(w.value)
                          /\ db'[k].expires_at = w.time + w.ttl ]_vars

\* C18: durable-tier round trip.  A get that finds no entry in the fast tier
\* and is served from the durable tier, by the entry that the last set of
\* the key wrote there, returns a value equal to the one passed to that set.
C18_DurableRoundTrip ==
    ( /\ get_result.hit
      /\ get_result.tier = "db"
      /\ ~get_result.last_set.db_failed
      /\ get_result.origin = [key |-> get_result.key, time |-> get_result.last_set.time,
                              ttl |-> get_result.last_set.ttl] )
    => get_result.value = get_result.last_set.value

\* dict equality: the same keys with the same values, whatever the order
SameMapping(o1, o2) ==
    {o1.kids[i] : i \in 1..Len(o1.kids)} = {o2.kids[i] : i \in 1..Len(o2.kids)}

\* the number of components in which two calls differ
Differences(a, b) ==
    (IF a.file_hash # b.file_hash THEN 1 ELSE 0)
    + (IF a.engine # b.engine THEN 1 ELSE 0)
    + (IF ~SameMapping(a.options, b.options) THEN 1 ELSE 0)

\* C16: generate_cache_key is a function of (file_hash, engine, options):
\* two calls with equal inputs return the same key, also when the options
\* were built in a different insertion order, and two calls whose inputs
\* differ in exactly one of the three components return different keys.
C16_KeyDerivation ==
    \A i, j \in 1..Len(key_calls) :
        /\ Differences(key_calls[i], key_calls[j]) = 0
              => key_calls[i].key = key_calls[j].key
        /\ Differences(key_calls[i], key_calls[j]) = 1
              => key_calls[i].key # key_calls[j].key

\* two calls with the same two options inserted in opposite orders
C16_Witness ==
    /\ Len(key_calls) = 2
    /\ key_calls[1].file_hash = key_calls[2].file_hash
    /\ key_calls[1].engine = key_calls[2].engine
    /\ Len(key_calls[1].options.kids) = 2
    /\ key_calls[1].options # key_calls[2].options
    /\ SameMapping(key_calls[1].options, key_calls[2].options)
    /\ key_calls[1].key = key_calls[2].key

\* the usage timestamps of credential c that are inside the trailing minute
RecentUsage(c) ==
    IF DictHas(usage_counts, c)
    THEN PruneUsage(DictVal(usage_counts, c), now - one_minute)
    ELSE <<>>

Saturated ==
    /\ keys # <<>>
    /\ \A c \in KeySet(keys) : Len(RecentUsage(c)) >= rate_limit_per_minute

\* C15: saturation fallback.  When every credential of the pool is at or
\* over its budget, get_key still returns a credential: one whose oldest
\* usage timestamp in the trailing minute is the earliest of all, and it
\* records the new usage on it, so that its count exceeds the budget.
C15_SaturationFallback ==
    [][ (Saturated /\ key_log' # key_log)
        => LET got == key_log'[Len(key_log')]
           IN  /\ Len(key_log') = Len(key_log) + 1
               /\ ~key_result'.raised
               /\ got.key \in KeySet(keys)
               /\ \A c \in KeySet(keys) :
                     MinOf(RecentUsage(got.key)) <= MinOf(RecentUsage(c))
               /\ DictVal(usage_counts', got.key) = Append(RecentUsage(got.key), now)
               /\ Len(DictVal(usage_counts', got.key)) > rate_limit_per_minute ]_vars

\* two credentials of budget 1, used at different instants; the third
\* acquisition of the minute found both saturated and went to the one used
\* first, which now holds two timestamps
C15_Witness ==
    /\ Len(keys) = 2
    /\ rate_limit_per_minute = 1
    /\ Len(key_log) = 3
    /\ key_result.fallback /\ ~key_result.raised
    /\ key_log[1].time < key_log[2].time
    /\ key_log[3].time - key_log[1].time < one_minute
    /\ key_log[3].key = key_log[1].key
    /\ key_log[3].key # key_log[2].key
    /\ Len(DictVal(usage_counts, key_log[3].key)) = 2

\* C32: removal takes effect.  A credential that remove_key has removed, or
\* that the list which replaced the pool's list omits, is not in the pool's
\* list until it is added again; so every acquire that returns a credential,
\* by rotation or by the saturation fallback, returns one of the list.
C32_RemovalTakesEffect ==
    [][key_log' # key_log => key_log'[Len(key_log')].key \in KeySet(keys)]_vars

\* C38: usage-history invariant.  After an acquire that returned a credential,
\* every usage history the pool holds has only timestamps of the trailing
\* minute (later than now - 60 s), the history of the credential returned is
\* its earlier history of that minute followed by the current instant, and
\* every other history is its earlier history of that minute.
C38_UsageHistory ==
    [][key_log' # key_log
        => LET returned == key_log'[Len(key_log')].key
           IN  \A c \in DictKeys(usage_counts') :
                  LET before == IF DictHas(usage_counts, c)
                                THEN SelectSeq(DictVal(usage_counts, c),
                                               LAMBDA x : now - x < one_minute)
                                ELSE <<>>
                      after == DictVal(usage_counts', c)
                  IN  /\ \A i \in 1..Len(after) :
                            now - after[i] < one_minute /\ after[i] <= now
                      /\ c = returned => after = Append(before, now)
                      /\ c # returned => after = before ]_vars

\* C24: get_usage_stats returns one entry for every credential in the pool,
\* and the count of each entry is the number of usage timestamps of that
\* credential in the trailing minute.
C24_StatsPerCredential ==
    stats_result # NoStats
    => /\ ~stats_result.raised
       /\ Len(stats_result.stats) = Cardinality(KeySet(stats_result.keys))
       /\ \A c \in KeySet(stats_result.keys) :
             /\ DictHas(stats_result.stats, MaskedKey(KeyText(c)))
             /\ DictVal(stats_result.stats, MaskedKey(KeyText(c))) = stats_result.recent[c]

\* C29: the pool stays consistent while its keys are replaced: in every
\* state in which get_key or get_usage_stats can run, every key of self.keys
\* has a usage list, so neither of them fails on a missing one.
C29_ConsistentUnderRefresh ==
    /\ \A c \in KeySet(keys) : DictHas(usage_counts, c)
    /\ ~key_result.raised
    /\ ~stats_result.raised

(***************************************************************************)
(* Claims about the credential pool shared by threads (SpecPoolThreads).   *)
(***************************************************************************)
InGetKey == {th \in Threads : pc[th] # "idle"}

\* C11: acquire, add and remove never overlap: at most one thread is inside
\* get_key at a time, add_key / remove_key run only while none is, and so no
\* update is lost: the cursor a thread selected from is still the cursor
\* when it writes, and every credential's usage history has exactly the
\* timestamps appended by completed acquires and not yet pruned.
C11_PoolMutualExclusion ==
    /\ Cardinality(InGetKey) <= 1
    /\ \A th \in InGetKey : lock = th
    /\ \A th \in Threads : pc[th] = "chosen" => local[th].seen_cursor = last_used_index
    /\ \A c \in Creds :
          DictHas(usage_counts, c) => Len(DictVal(usage_counts, c)) = expected_len[c]

\* both threads have completed an acquire, the pool has been changed by
\* add_key or remove_key, and a thread is inside get_key again
C11_Witness ==
    /\ \A th \in Threads : local[th].ops >= 1
    /\ Len(key_log) >= 2
    /\ ~pool_fixed
    /\ \E th \in Threads : pc[th] = "chosen" /\ local[th].ops = 2

====
